---- MODULE Spec2Model ----
(***************************************************************************)
(* JobPilot semantic matching core: the embedding service                  *)
(* (src/src/semantic/embeddings.py), the semantic search engine            *)
(* (src/src/semantic/search_engine.py) and the LLM analyzer                *)
(* (src/src/semantic/llm_analyzer.py).                                     *)
(*                                                                         *)
(* Conventions.                                                            *)
(*  - A Python float score is a fixed-point integer in thousandths         *)
(*    (Unit = 1.0), truncated; the float nan is the value NaN and the      *)
(*    float inf is the value Inf.  Comparisons with NaN are false, as in   *)
(*    IEEE arithmetic.                                                     *)
(*  - A Python string is a sequence of tokens; the token "sp" is a run of  *)
(*    whitespace.  A token with a capital first letter ("Py") is the       *)
(*    capitalised spelling of the lower-case one ("py").                   *)
(*  - Python None is None, NoneNum, NoneStr, NoneList or NoProfile by the   *)
(*    type of the field; a missing embedding is NoVec.                     *)
(*  - A call that ends by raising is the record [out |-> "raised"]; a      *)
(*    try/except is an IF on that outcome.                                 *)
(***************************************************************************)
EXTENDS Integers, Sequences, FiniteSets, TLC

VARIABLES
    store,    \* the job_listings table: a sequence of job rows, in storage order
    client,   \* LLMAnalyzer.client: TRUE iff an LLM provider was configured
    cache,    \* the embedding cache directory: cache key (text) -> pickled vector
    call,     \* the call that has just completed (its operation, inputs and
              \* result), or Idle once the caller has taken the result
    history   \* what embed_text has returned so far in this execution:
              \* <<cache key, vector, whether model.encode failed>> triples

vars == <<store, client, cache, call, history>>

(***************************************************************************)
(* Bounds of the model.                                                    *)
(***************************************************************************)
MaxJobs == 3      \* rows in the job_listings table
MaxLimit == 2     \* largest `limit` argument tried
MaxFaults == 1    \* collaborator faults injected into one search call
MaxBatch == 2     \* texts in one embed_texts call
MaxYears == 32    \* largest profile experience_years tried
MaxCoord == 2     \* largest coordinate of an embedding handed to calculate_similarity
MaxCandidates == 3  \* candidates in one find_most_similar call

(***************************************************************************)
(* Floats in fixed point.                                                  *)
(***************************************************************************)
Unit == 10 * 100
NaN == 0 - (Unit * Unit)
Inf == 1000000

\* Python None: as an enumerated string, as a number, as a string of tokens,
\* as a list of strings, and as a profile dictionary.
None == "None"
NoneNum == 0 - 1
NoneStr == <<"#None">>
NoneList == <<NoneStr>>
NoProfile == [none |-> TRUE]
NoJob == [none |-> TRUE, job |-> TRUE]
NoMatch == [none |-> TRUE, match |-> TRUE]

IsNaN(x) == x = NaN

\* Python's a < b on floats: false as soon as one side is nan.
Lt(a, b) == ~IsNaN(a) /\ ~IsNaN(b) /\ a < b
Le(a, b) == ~IsNaN(a) /\ ~IsNaN(b) /\ a <= b
Gt(a, b) == Lt(b, a)
Ge(a, b) == Le(b, a)

\* Python's min(a, b) and max(a, b): the first argument unless the second
\* compares strictly below (above) it, so a nan first argument is kept.
PyMin(a, b) == IF Lt(b, a) THEN b ELSE a
PyMax(a, b) == IF Gt(b, a) THEN b ELSE a

InUnitRange(x) == ~IsNaN(x) /\ 0 <= x /\ x <= Unit

\* Body at the value of e, with e evaluated once: a local variable that
\* holds the result of a call
With(e, Body(_)) == CHOOSE y \in {Body(x) : x \in {e}} : TRUE

RECURSIVE ISqrtIn(_, _, _)
\* the integer square root of n, known to lie in lo..hi
ISqrtIn(n, lo, hi) ==
    IF lo >= hi THEN lo
    ELSE LET mid == (lo + hi + 1) \div 2
         IN IF mid * mid <= n THEN ISqrtIn(n, mid, hi) ELSE ISqrtIn(n, lo, mid - 1)

ISqrt(n) == ISqrtIn(n, 0, Unit)

(***************************************************************************)
(* Strings.                                                                *)
(***************************************************************************)
Space == "sp"
Comma == ","

\* a value that is not a string (a number), where a string is expected
NonStr == <<"#number">>

Lower(tok) ==
    CASE tok = "Py" -> "py"
      [] tok = "Ml" -> "ml"
      [] tok = "Ux" -> "ux"
      [] tok = "Ny" -> "ny"
      [] tok = "Remote" -> "remote"
      [] tok = "Hybrid" -> "hybrid"
      [] tok = "Mid_Level" -> "mid_level"
      [] OTHER -> tok

\* str.lower()
LowerStr(s) == [i \in 1..Len(s) |-> Lower(s[i])]

\* not text.strip(): the text is empty or all whitespace
IsBlank(text) == \A i \in 1..Len(text) : text[i] = Space

\* text.strip() of a text that is not blank
Strip(text) ==
    LET keep == {i \in 1..Len(text) : text[i] # Space}
        lo == CHOOSE i \in keep : \A j \in keep : i <= j
        hi == CHOOSE i \in keep : \A j \in keep : j <= i
    IN SubSeq(text, lo, hi)

RECURSIVE JoinWith(_, _)
\* sep.join(parts)
JoinWith(sep, parts) ==
    IF Len(parts) = 0 THEN <<>>
    ELSE IF Len(parts) = 1 THEN parts[1]
    ELSE parts[1] \o sep \o JoinWith(sep, Tail(parts))

\* a in b for two strings: a is a contiguous part of b
IsSubstring(a, b) ==
    \E k \in 0..(Len(b) - Len(a)) : \A i \in 1..Len(a) : b[k + i] = a[i]

\* filter(None, parts): the parts that are not empty strings
RECURSIVE FilterNonEmpty(_)
FilterNonEmpty(parts) ==
    IF Len(parts) = 0 THEN <<>>
    ELSE IF Len(Head(parts)) = 0 THEN FilterNonEmpty(Tail(parts))
    ELSE <<Head(parts)>> \o FilterNonEmpty(Tail(parts))

(***************************************************************************)
(* The embedding model collaborator (SentenceTransformer): a deterministic *)
(* function of the text.  The stand-in sums one small vector per token,    *)
(* case-insensitively, so that repeated tokens weigh more.                 *)
(***************************************************************************)
Dim == 2

Vec(x, y) == [i \in 1..Dim |-> IF i = 1 THEN x ELSE IF i = 2 THEN y ELSE 0]

Zeros == [i \in 1..Dim |-> 0]

NoVec == <<>>

WordVec(tok) ==
    LET t == Lower(tok)
    IN CASE t = "py" -> Vec(1, 0)
         [] t = "ml" -> Vec(1, 3)
         [] t = "ux" -> Vec(-1, 0)
         [] t = "ny" -> Vec(0, 1)
         [] OTHER -> Zeros

RECURSIVE ModelEncode(_)
\* self.model.encode(text, convert_to_numpy=True), when it does not fail
ModelEncode(text) ==
    IF Len(text) = 0 THEN Zeros
    ELSE With(ModelEncode(Tail(text)), LAMBDA rest :
            [i \in 1..Dim |-> WordVec(Head(text))[i] + rest[i]])

(***************************************************************************)
(* EmbeddingService: cache and embed_text / embed_texts.                   *)
(* A fault is what the collaborators do wrong during one embed call:       *)
(* "model" (model.encode raises), "load" (reading the cache file raises),  *)
(* "save" (writing the cache file raises), or "ok".                        *)
(***************************************************************************)
FaultKinds == {"ok", "model", "load", "save"}

\* _get_cache_key: md5 of the text, taken to be collision-free
GetCacheKey(text) == text

\* _load_from_cache
LoadFromCache(c, key, fault) ==
    IF key \in DOMAIN c
    THEN IF fault = "load" THEN NoVec ELSE c[key]
    ELSE NoVec

\* _save_to_cache, mutated: the zero vector is what gets written
SaveToCacheZeros(c, key, emb, fault) ==
    IF fault = "save" THEN c
    ELSE [k \in (DOMAIN c) \cup {key} |-> IF k = key THEN Zeros ELSE c[k]]

\* _save_to_cache: a failed write is logged and leaves the file as it was
SaveToCache(c, key, emb, fault) ==
    IF fault = "save" THEN c
    ELSE [k \in (DOMAIN c) \cup {key} |-> IF k = key THEN emb ELSE c[k]]

\* embed_text's except branch, mutated: the failure is re-raised
EmbedTextOnFailureReraise(c) == [out |-> "raised", val |-> NoVec, cache |-> c]

\* embed_text's except branch: log and return the zero vector
EmbedTextOnFailure(c) == [out |-> "returned", val |-> Zeros, cache |-> c]

\* embed_text's success branch, mutated: the zero vector is what gets returned
EmbedTextEncodeZero(c, t, useCache, fault) ==
    [out |-> "returned", val |-> Zeros, cache |-> c]

\* embed_text's try branch when model.encode succeeded
EmbedTextEncode(c, t, useCache, fault) ==
    LET emb == ModelEncode(t)
    IN [out |-> "returned", val |-> emb,
        cache |-> IF useCache THEN SaveToCache(c, GetCacheKey(t), emb, fault) ELSE c]

\* embed_text(text, use_cache); text.strip() raises AttributeError on an
\* argument that is not a string
EmbedText(c, text, useCache, fault) ==
    IF text = NonStr
    THEN [out |-> "raised", val |-> NoVec, cache |-> c]
    ELSE IF IsBlank(text)
    THEN [out |-> "returned", val |-> Zeros, cache |-> c]
    ELSE LET t == Strip(text)
             cached == IF useCache THEN LoadFromCache(c, GetCacheKey(t), fault) ELSE NoVec
         IN IF cached # NoVec
            THEN [out |-> "returned", val |-> cached, cache |-> c]
            ELSE IF fault = "model"
                 THEN EmbedTextOnFailure(c)
                 ELSE EmbedTextEncode(c, t, useCache, fault)

\* embed_texts, step 1: the cache lookup per position (NoVec is the placeholder)
EmbedTextsLookup(c, texts, useCache, loadFail) ==
    [i \in 1..Len(texts) |->
        IF IsBlank(texts[i]) THEN Zeros
        ELSE IF useCache
             THEN LoadFromCache(c, GetCacheKey(Strip(texts[i])),
                                IF i \in loadFail THEN "load" ELSE "ok")
             ELSE NoVec]

\* indices_to_embed, mutated: every text that is not blank is embedded anew
IndicesToEmbedAll(texts, slots) == {i \in 1..Len(texts) : ~IsBlank(texts[i])}

\* indices_to_embed
IndicesToEmbed(texts, slots) ==
    {i \in 1..Len(texts) : ~IsBlank(texts[i]) /\ slots[i] = NoVec}

RECURSIVE EmbedTextsSave(_, _, _, _, _)
\* embed_texts, the loop that caches each newly computed vector, from position i on
EmbedTextsSave(c, texts, idx, saveFail, i) ==
    IF i > Len(texts) THEN c
    ELSE IF i \in idx
         THEN LET t == Strip(texts[i])
              IN EmbedTextsSave(
                     SaveToCache(c, GetCacheKey(t), ModelEncode(t),
                                 IF i \in saveFail THEN "save" ELSE "ok"),
                     texts, idx, saveFail, i + 1)
         ELSE EmbedTextsSave(c, texts, idx, saveFail, i + 1)

\* embed_texts' except branch: every unresolved slot becomes the zero vector
EmbedTextsOnFailure(slots, idx) ==
    [i \in DOMAIN slots |-> IF i \in idx /\ slots[i] = NoVec THEN Zeros ELSE slots[i]]

RECURSIVE TextsToEmbed(_, _, _)
\* texts_to_embed: the stripped texts at the positions idx, in input order,
\* from position i on
TextsToEmbed(texts, idx, i) ==
    IF i > Len(texts) THEN <<>>
    ELSE (IF i \in idx THEN <<Strip(texts[i])>> ELSE <<>>)
             \o TextsToEmbed(texts, idx, i + 1)

\* embed_texts(texts, use_cache); sent lists the batches handed to
\* model.encode, one per call of it
EmbedTexts(c, texts, useCache, modelFails, loadFail, saveFail) ==
    IF Len(texts) = 0
    THEN [out |-> "returned", val |-> <<>>, cache |-> c, sent |-> <<>>]
    ELSE LET slots == EmbedTextsLookup(c, texts, useCache, loadFail)
             idx == IndicesToEmbed(texts, slots)
         IN IF idx = {}
            THEN [out |-> "returned", val |-> slots, cache |-> c, sent |-> <<>>]
            ELSE IF modelFails
                 THEN [out |-> "returned", val |-> EmbedTextsOnFailure(slots, idx),
                       cache |-> c, sent |-> <<TextsToEmbed(texts, idx, 1)>>]
                 ELSE [out |-> "returned",
                       val |-> [i \in DOMAIN slots |->
                                   IF i \in idx THEN ModelEncode(Strip(texts[i]))
                                   ELSE slots[i]],
                       cache |-> IF useCache
                                 THEN EmbedTextsSave(c, texts, idx, saveFail, 1)
                                 ELSE c,
                       sent |-> <<TextsToEmbed(texts, idx, 1)>>]

\* clear_cache: the cache directory is removed and recreated
ClearCacheDir(c) == <<>>

(***************************************************************************)
(* Cosine similarity.                                                      *)
(***************************************************************************)
Dot(a, b) ==
    LET RECURSIVE Sum(_)
        Sum(i) == IF i = 0 THEN 0 ELSE a[i] * b[i] + Sum(i - 1)
    IN Sum(Dim)

\* sklearn cosine_similarity of two rows: each row is divided by its norm,
\* a zero row is left as it is, and the rows are multiplied.
CosineSimilarity(a, b) ==
    LET d == Dot(a, b)
        na == Dot(a, a)
        nb == Dot(b, b)
    IN IF na = 0 \/ nb = 0 \/ d = 0 THEN 0
       ELSE LET sq == ((d * d) * 10000) \div (na * nb)
                mag == ISqrt(sq * 100)
            IN IF d < 0 THEN 0 - mag ELSE mag

\* calculate_similarity: float(cosine_similarity(...)), 0.0 when that raises
CalculateSimilarity(e1, e2) ==
    IF e1 = NoVec \/ e2 = NoVec THEN 0
    ELSE CosineSimilarity(e1, e2)

(***************************************************************************)
(* Job and profile embeddings.                                             *)
(* A JSON list column holds a sequence of strings, None, or a list with an *)
(* item that is not a string (NonStr), which str.join rejects.             *)
(***************************************************************************)
IsStrList(l) == l # NoneList /\ \A i \in 1..Len(l) : l[i] # NonStr

\* bool(s) of a string-or-None field
StrTruthy(s) == s # NoneStr /\ Len(s) > 0

\* bool(x) of a list-or-None field
Truthy(l) == l # NoneList /\ Len(l) > 0

\* the text_parts a list field contributes, items appended one by one
PartsOfItems(l) == IF Truthy(l) THEN l ELSE <<>>

\* the text_parts a skills field contributes: ", ".join(list), absent if empty
PartsOfJoined(l) ==
    IF Truthy(l) THEN <<JoinWith(<<Comma, Space>>, l)>> ELSE <<>>

\* text_parts of embed_job_description, in order
JobTextParts(job) ==
    (IF StrTruthy(job.title) THEN <<job.title, job.title, job.title>> ELSE <<>>)
    \o (IF StrTruthy(job.description) THEN <<job.description>> ELSE <<>>)
    \o PartsOfItems(job.requirements)
    \o PartsOfItems(job.responsibilities)
    \o PartsOfJoined(job.skills_required)
    \o PartsOfJoined(job.skills_preferred)

\* str.join raises TypeError on an item that is not a string
JobTextRaises(job) ==
    \E f \in {"requirements", "responsibilities", "skills_required", "skills_preferred"} :
        Truthy(job[f]) /\ ~IsStrList(job[f])

\* combined_text of embed_job_description
JobText(job) == JoinWith(<<Space>>, FilterNonEmpty(JobTextParts(job)))

\* embed_job_description(job_dict)
EmbedJobDescription(c, job, fault) ==
    IF JobTextRaises(job)
    THEN [out |-> "raised", val |-> NoVec, cache |-> c]
    ELSE EmbedText(c, JobText(job), TRUE, fault)

\* text_parts of embed_user_profile, in order
ProfileTextParts(profile) ==
    (IF StrTruthy(profile.current_title)
     THEN <<profile.current_title, profile.current_title>> ELSE <<>>)
    \o PartsOfItems(profile.preferred_titles)
    \o PartsOfJoined(profile.skills)
    \o (IF StrTruthy(profile.industry) THEN <<profile.industry>> ELSE <<>>)

ProfileText(profile) == JoinWith(<<Space>>, FilterNonEmpty(ProfileTextParts(profile)))

\* str.join raises TypeError on an item that is not a string
ProfileTextRaises(profile) ==
    \E f \in {"preferred_titles", "skills"} :
        Truthy(profile[f]) /\ ~IsStrList(profile[f])

\* embed_user_profile(profile_dict)
EmbedUserProfile(c, profile, fault) ==
    IF ProfileTextRaises(profile)
    THEN [out |-> "raised", val |-> NoVec, cache |-> c]
    ELSE EmbedText(c, ProfileText(profile), TRUE, fault)

(***************************************************************************)
(* SemanticSearchEngine: the four profile-dependent sub-scores.            *)
(***************************************************************************)
Half == Unit \div 2

\* the neutral score, mutated: missing profile data is a slight penalty
NeutralScorePenalty == Half - 100

\* return 0.5: the neutral score of a sub-scorer that has no profile data
NeutralScore == Half

\* bool(x) of a number-or-None field: None and 0 are both false
NumTruthy(x) == x # NoneNum /\ x # 0

\* not user_profile: None or the empty dictionary
ProfileAbsent(profile) == profile = NoProfile

\* set(skill.lower() for skill in l)
LowerSet(l) == {LowerStr(l[i]) : i \in 1..Len(l)}

\* the job_skills set, mutated: the preferred skills are left out
JobSkillsRequiredOnly(job) ==
    IF Truthy(job.skills_required) THEN LowerSet(job.skills_required) ELSE {}

\* the job_skills set of _calculate_skills_match
JobSkills(job) ==
    (IF Truthy(job.skills_required) THEN LowerSet(job.skills_required) ELSE {})
    \cup (IF Truthy(job.skills_preferred) THEN LowerSet(job.skills_preferred) ELSE {})

\* skill.lower() raises AttributeError on an item that is not a string
SkillsRaise(job, profile) ==
    \/ ~IsStrList(profile.skills)
    \/ Truthy(job.skills_required) /\ ~IsStrList(job.skills_required)
    \/ Truthy(job.skills_preferred) /\ ~IsStrList(job.skills_preferred)

\* _calculate_skills_match
CalculateSkillsMatch(job, profile) ==
    IF ProfileAbsent(profile) \/ ~Truthy(profile.skills) THEN NeutralScore
    ELSE IF SkillsRaise(job, profile) THEN Half
    ELSE LET userSkills == LowerSet(profile.skills)
             jobSkills == JobSkills(job)
             overlap == Cardinality(userSkills \cap jobSkills)
             total == Cardinality(jobSkills)
         IN IF jobSkills = {} THEN Half
            ELSE PyMin((overlap * Unit) \div total, Unit)

Levels == {"entry_level", "associate", "mid_level", "senior_level", "director", "executive"}

\* level_to_years
LevelToYears(level) ==
    CASE level = "entry_level" -> <<0, 2>>
      [] level = "associate" -> <<1, 3>>
      [] level = "mid_level" -> <<3, 7>>
      [] level = "senior_level" -> <<5, 12>>
      [] level = "director" -> <<8, 20>>
      [] level = "executive" -> <<10, 30>>

\* (x or '').lower() of an enumerated string column
LowerOrEmpty(x) == IF x = None THEN "" ELSE Lower(x)

\* _calculate_experience_match
CalculateExperienceMatch(job, profile) ==
    IF ProfileAbsent(profile) \/ ~NumTruthy(profile.experience_years) THEN NeutralScore
    ELSE LET userYears == profile.experience_years
             jobLevel == LowerOrEmpty(job.experience_level)
         IN IF jobLevel \notin Levels THEN Half
            ELSE LET minYears == LevelToYears(jobLevel)[1]
                     maxYears == LevelToYears(jobLevel)[2]
                 IN IF minYears <= userYears /\ userYears <= maxYears THEN Unit
                    ELSE IF userYears < minYears
                         THEN PyMax(0, Unit - ((minYears - userYears) * Unit) \div 5)
                         ELSE PyMax(600, Unit - ((userYears - maxYears) * Unit) \div 10)

\* x or 0, x or float('inf')
OrZero(x) == IF NumTruthy(x) THEN x ELSE 0
OrInf(x) == IF NumTruthy(x) THEN x ELSE Inf

\* hi - lo on floats, lo finite
SubF(hi, lo) == IF hi = Inf THEN Inf ELSE hi - lo

\* overlap_size / ((job_range_size + user_range_size) / 2) on floats:
\* inf / inf is nan, finite / inf is 0.0
OverlapRatio(overlapSize, jobSize, userSize) ==
    IF jobSize = Inf \/ userSize = Inf
    THEN IF overlapSize = Inf THEN NaN ELSE 0
    ELSE (2 * overlapSize * Unit) \div (jobSize + userSize)

\* filter(None, [job_min, job_max, user_min, user_max])
KnownSalaries(jobMin, jobMax, userMin, userMax) ==
    SelectSeq(<<jobMin, jobMax, userMin, userMax>>, NumTruthy)

RECURSIVE SumSeq(_)
SumSeq(q) == IF Len(q) = 0 THEN 0 ELSE Head(q) + SumSeq(Tail(q))

\* the no-overlap branch: max(0.0, 1.0 - gap / avg_salary)
GapPenalty(gap, known) ==
    IF SumSeq(known) > 0
    THEN LET ratio == (gap * Len(known) * Unit) \div SumSeq(known)
         IN PyMax(0, Unit - ratio)
    ELSE 0

\* the overlap branch of _calculate_salary_match
SalaryOverlapScore(overlapSize, jobSize, userSize) ==
    IF jobSize > 0 /\ userSize > 0
    THEN PyMin(OverlapRatio(overlapSize, jobSize, userSize), Unit)
    ELSE Unit

\* _calculate_salary_match
CalculateSalaryMatch(job, profile) ==
    IF ProfileAbsent(profile) THEN NeutralScore
    ELSE LET userMin == profile.desired_salary_min
             userMax == profile.desired_salary_max
             jobMin == job.salary_min
             jobMax == job.salary_max
         IN IF ~(NumTruthy(userMin) \/ NumTruthy(userMax)
                 \/ NumTruthy(jobMin) \/ NumTruthy(jobMax)) THEN Half
            ELSE IF ~NumTruthy(jobMin) /\ ~NumTruthy(jobMax) THEN 400
            ELSE IF ~NumTruthy(userMin) /\ ~NumTruthy(userMax) THEN Half
            ELSE LET jobLo == OrZero(jobMin)
                     jobHi == OrInf(jobMax)
                     userLo == OrZero(userMin)
                     userHi == OrInf(userMax)
                     overlapStart == IF userLo > jobLo THEN userLo ELSE jobLo
                     overlapEnd == IF userHi < jobHi THEN userHi ELSE jobHi
                 IN IF overlapStart <= overlapEnd
                    THEN SalaryOverlapScore(SubF(overlapEnd, overlapStart),
                                            SubF(jobHi, jobLo), SubF(userHi, userLo))
                    ELSE GapPenalty(overlapStart - overlapEnd,
                                    KnownSalaries(jobMin, jobMax, userMin, userMax))

\* (job_dict.get('location') or '').lower()
JobLocation(job) == IF StrTruthy(job.location) THEN LowerStr(job.location) ELSE <<>>

\* user_locations
UserLocations(profile) ==
    [i \in 1..Len(profile.preferred_locations) |-> LowerStr(profile.preferred_locations[i])]

\* _calculate_location_match, mutated: the hybrid rule comes before the
\* location-name rule
CalculateLocationMatchHybridFirst(job, profile) ==
    IF ProfileAbsent(profile) \/ ~Truthy(profile.preferred_locations) THEN NeutralScore
    ELSE IF ~IsStrList(profile.preferred_locations) THEN Half
    ELSE LET userLocations == UserLocations(profile)
             jobLocation == JobLocation(job)
             jobRemote == LowerOrEmpty(job.remote_type)
         IN IF (\E i \in 1..Len(userLocations) : userLocations[i] = <<"remote">>)
               /\ jobRemote \in {"remote", "hybrid"} THEN Unit
            ELSE IF jobRemote = "hybrid" THEN 700
            ELSE IF \E i \in 1..Len(userLocations) :
                        \/ IsSubstring(userLocations[i], jobLocation)
                        \/ IsSubstring(jobLocation, userLocations[i]) THEN Unit
            ELSE 200

\* _calculate_location_match
CalculateLocationMatch(job, profile) ==
    IF ProfileAbsent(profile) \/ ~Truthy(profile.preferred_locations) THEN NeutralScore
    ELSE IF ~IsStrList(profile.preferred_locations) THEN Half
    ELSE LET userLocations == UserLocations(profile)
             jobLocation == JobLocation(job)
             jobRemote == LowerOrEmpty(job.remote_type)
         IN IF (\E i \in 1..Len(userLocations) : userLocations[i] = <<"remote">>)
               /\ jobRemote \in {"remote", "hybrid"} THEN Unit
            ELSE IF \E i \in 1..Len(userLocations) :
                        \/ IsSubstring(userLocations[i], jobLocation)
                        \/ IsSubstring(jobLocation, userLocations[i]) THEN Unit
            ELSE IF jobRemote = "hybrid" THEN 700
            ELSE 200

(***************************************************************************)
(* The overall score.                                                      *)
(***************************************************************************)
WeightSemantic == 350
WeightSkills == 250
WeightExperience == 200
WeightSalary == 150
WeightLocation == 50

\* round(x, 3) of a value given in millionths: to the nearest thousandth,
\* a tie to the even one; round(nan, 3) is nan
Round3(micro) ==
    LET q == micro \div Unit
        r == micro % Unit
    IN IF r > Half THEN q + 1
       ELSE IF r < Half THEN q
       ELSE IF q % 2 = 0 THEN q ELSE q + 1

\* _calculate_overall_score, mutated: the skills and experience weights swapped
CalculateOverallScoreSwapped(semantic, skills, experience, salary, location) ==
    IF \E x \in {semantic, skills, experience, salary, location} : IsNaN(x) THEN NaN
    ELSE Round3(semantic * WeightSemantic + skills * WeightExperience
                + experience * WeightSkills + salary * WeightSalary
                + location * WeightLocation)

\* _calculate_overall_score
CalculateOverallScore(semantic, skills, experience, salary, location) ==
    IF \E x \in {semantic, skills, experience, salary, location} : IsNaN(x) THEN NaN
    ELSE Round3(semantic * WeightSemantic + skills * WeightSkills
                + experience * WeightExperience + salary * WeightSalary
                + location * WeightLocation)

(***************************************************************************)
(* list.sort(key=..., reverse=True) as CPython runs it on a short list:    *)
(* the list is reversed, sorted ascending and stably with "<" alone (the   *)
(* leading run is found, a strictly descending one is reversed, and the    *)
(* rest is put in place by binary insertion), and reversed again.          *)
(* The elements are <<key, item>> pairs.                                   *)
(***************************************************************************)
Reverse(s) == [i \in 1..Len(s) |-> s[Len(s) + 1 - i]]

RECURSIVE RunEnd(_, _, _)
\* count_run: the length of the leading run, i the next position to look at
RunEnd(s, i, desc) ==
    IF i > Len(s) THEN i - 1
    ELSE IF Lt(s[i][1], s[i - 1][1]) = desc THEN RunEnd(s, i + 1, desc)
    ELSE i - 1

RECURSIVE InsertionPoint(_, _, _, _)
\* binarysort's search for the place of pivot among s[l..r-1]
InsertionPoint(s, pivot, l, r) ==
    IF l >= r THEN l
    ELSE LET p == l + ((r - l) \div 2)
         IN IF Lt(pivot[1], s[p][1])
            THEN InsertionPoint(s, pivot, l, p)
            ELSE InsertionPoint(s, pivot, p + 1, r)

RECURSIVE BinarySort(_, _)
\* binarysort: s[1..start-1] is in place, s[start..] is inserted one by one
BinarySort(s, start) ==
    IF start > Len(s) THEN s
    ELSE LET pivot == s[start]
             l == InsertionPoint(s, pivot, 1, start)
         IN BinarySort(SubSeq(s, 1, l - 1) \o <<pivot>> \o SubSeq(s, l, start - 1)
                       \o SubSeq(s, start + 1, Len(s)),
                       start + 1)

SortAscending(s) ==
    IF Len(s) < 2 THEN s
    ELSE LET desc == Lt(s[2][1], s[1][1])
             run == RunEnd(s, 3, desc)
             head == IF desc THEN Reverse(SubSeq(s, 1, run)) ELSE SubSeq(s, 1, run)
         IN BinarySort(head \o SubSeq(s, run + 1, Len(s)), run + 1)

SortDescending(s) == Reverse(SortAscending(Reverse(s)))

\* matches.sort(key=lambda x: x.overall_score, reverse=True)
SortByOverallScore(matches) ==
    LET keyed == [i \in 1..Len(matches) |-> <<matches[i].overall_score, matches[i]>>]
        sorted == SortDescending(keyed)
    IN [i \in 1..Len(sorted) |-> sorted[i][2]]

\* matches.sort(key=lambda x: x.semantic_score, reverse=True)
SortBySemanticScore(matches) ==
    LET keyed == [i \in 1..Len(matches) |-> <<matches[i].semantic_score, matches[i]>>]
        sorted == SortDescending(keyed)
    IN [i \in 1..Len(sorted) |-> sorted[i][2]]

\* s[:limit]
Take(s, limit) ==
    IF limit >= 0
    THEN SubSeq(s, 1, IF limit < Len(s) THEN limit ELSE Len(s))
    ELSE SubSeq(s, 1, IF Len(s) + limit > 0 THEN Len(s) + limit ELSE 0)

(***************************************************************************)
(* SemanticSearchEngine._generate_match_reasons.  A reason is a string; a  *)
(* fixed phrase is one token.  `order` is the order in which the set of    *)
(* matching skills is iterated, which Python does not fix.                 *)
(***************************************************************************)
ReasonLimit == 5

\* the iteration orders of a set
Orderings(S) ==
    {q \in [1..Cardinality(S) -> S] : \A i, j \in 1..Cardinality(S) : q[i] = q[j] => i = j}

\* level.replace('_', ' ').title()
TitleLevel(level) ==
    CASE level = "entry_level" -> "Entry Level"
      [] level = "associate" -> "Associate"
      [] level = "mid_level" -> "Mid Level"
      [] level = "senior_level" -> "Senior Level"
      [] level = "director" -> "Director"
      [] level = "executive" -> "Executive"
      [] OTHER -> level

\* the semantic similarity reasons
SemanticReasons(semantic) ==
    IF Gt(semantic, 700)
    THEN << <<"Excellent match with your search query and interests">> >>
    ELSE IF Gt(semantic, Half)
    THEN << <<"Good alignment with your search criteria">> >>
    ELSE <<>>

\* the skills branch is entered
SkillsReasonTried(profile, skills) ==
    Gt(skills, 700) /\ ~ProfileAbsent(profile) /\ Truthy(profile.skills)

\* skill.lower() raises AttributeError on an item that is not a string
SkillsReasonRaises(job, profile) ==
    \/ ~IsStrList(profile.skills)
    \/ Truthy(job.skills_required) /\ ~IsStrList(job.skills_required)

\* matching_skills: the user's skills among the required skills of the job
MatchingSkills(job, profile) ==
    LowerSet(profile.skills)
        \cap (IF Truthy(job.skills_required) THEN LowerSet(job.skills_required) ELSE {})

\* the skills reason: up to three matching skills, in iteration order
SkillsReasons(order) ==
    IF Len(order) > 0
    THEN << <<"Strong skills match: ">> \o JoinWith(<<Comma, Space>>, Take(order, 3)) >>
    ELSE <<>>

\* job_dict.get('experience_level', '').replace(...) raises AttributeError
\* on None: the key is there, its value is None
ExperienceReasonRaises(job, experience) ==
    /\ ~Gt(experience, 800)
    /\ ~Gt(experience, 600)
    /\ Lt(experience, 400)
    /\ job.experience_level = None

\* the experience reasons
ExperienceReasons(job, experience) ==
    IF Gt(experience, 800) THEN << <<"Perfect experience level match">> >>
    ELSE IF Gt(experience, 600) THEN << <<"Good experience level alignment">> >>
    ELSE IF Lt(experience, 400) /\ job.experience_level # ""
    THEN << <<"Consider this ", TitleLevel(job.experience_level),
              " opportunity for growth">> >>
    ELSE <<>>

\* the salary reasons
SalaryReasons(job, salary) ==
    IF Gt(salary, 700) THEN << <<"Salary range aligns with your expectations">> >>
    ELSE IF Lt(salary, 300) /\ NumTruthy(job.salary_min)
    THEN << <<"Salary may be below expectations">> >>
    ELSE <<>>

\* the location reasons
LocationReasons(job, location) ==
    IF Gt(location, 800)
    THEN IF job.remote_type = "remote" THEN << <<"Fully remote position">> >>
         ELSE << <<"Location matches your preferences">> >>
    ELSE IF job.remote_type = "hybrid"
    THEN << <<"Hybrid work arrangement available">> >>
    ELSE <<>>

\* the company reason
CompanyReasons(job) ==
    IF job.company # "" THEN << <<"Opportunity at ", job.company>> >> ELSE <<>>

\* the list `reasons` when every rule has run
AllReasons(job, profile, semantic, skills, experience, salary, location, order) ==
    SemanticReasons(semantic)
        \o (IF SkillsReasonTried(profile, skills) THEN SkillsReasons(order) ELSE <<>>)
        \o ExperienceReasons(job, experience)
        \o SalaryReasons(job, salary)
        \o LocationReasons(job, location)
        \o CompanyReasons(job)

\* return reasons[:5], mutated: the list is returned whole
ReturnReasonsWhole(reasons) == reasons

\* return reasons[:5]
ReturnReasons(reasons) == Take(reasons, ReasonLimit)

\* _generate_match_reasons
GenerateMatchReasons(job, profile, semantic, skills, experience, salary, location, order) ==
    IF SkillsReasonTried(profile, skills) /\ SkillsReasonRaises(job, profile)
    THEN [out |-> "raised", val |-> <<>>]
    ELSE IF ExperienceReasonRaises(job, experience)
    THEN [out |-> "raised", val |-> <<>>]
    ELSE [out |-> "returned",
          val |-> ReturnReasons(AllReasons(job, profile, semantic, skills, experience,
                                           salary, location, order))]

(***************************************************************************)
(* EmbeddingService.find_most_similar.  A pair is <<index, score>>, the    *)
(* index counted from 0 as enumerate does.                                 *)
(***************************************************************************)
\* the (index, similarity) pairs of the loop over the candidates
SimilarityPairs(query, candidates) ==
    [i \in 1..Len(candidates) |->
        <<i - 1, IF candidates[i] # NoVec
                 THEN CosineSimilarity(query, candidates[i])
                 ELSE 0>>]

\* similarities.sort(key=lambda x: x[1], reverse=True)
SortBySimilarity(pairs) ==
    LET keyed == [i \in 1..Len(pairs) |-> <<pairs[i][2], pairs[i]>>]
        sorted == SortDescending(keyed)
    IN [i \in 1..Len(sorted) |-> sorted[i][2]]

\* find_most_similar, mutated: a None candidate is skipped
FindMostSimilarSkipNone(query, candidates, topK) ==
    Take(SortBySimilarity(SelectSeq(SimilarityPairs(query, candidates),
                                    LAMBDA p : candidates[p[1] + 1] # NoVec)),
         topK)

\* find_most_similar(query_embedding, candidate_embeddings, top_k);
\* query_embedding.reshape raises on None and the except branch returns []
FindMostSimilar(query, candidates, topK) ==
    IF Len(candidates) = 0 THEN <<>>
    ELSE IF query = NoVec THEN <<>>
    ELSE Take(SortBySimilarity(SimilarityPairs(query, candidates)), topK)

(***************************************************************************)
(* SemanticSearchEngine._get_filtered_jobs.  The filters become SQL WHERE  *)
(* clauses: a comparison with a NULL column is not true, so the row is     *)
(* dropped.  A list filter is a set of strings, empty for None or [].      *)
(***************************************************************************)
NoFilters == [none |-> TRUE]

\* SearchFilters(): the dataclass defaults
DefaultFilters ==
    [min_salary |-> NoneNum, max_salary |-> NoneNum, job_types |-> {},
     remote_types |-> {}, experience_levels |-> {}, locations |-> {},
     companies |-> {}, required_skills |-> {}, excluded_skills |-> {},
     max_age_days |-> 30]

\* JobListingDB.location.contains(location): LIKE '%location%', which SQLite
\* matches without regard to case
LocationContains(job, location) ==
    job.location # NoneStr /\ IsSubstring(LowerStr(location), LowerStr(job.location))

\* the WHERE clause built from filters
PassesFilters(job, filters) ==
    /\ filters.min_salary # NoneNum =>
           job.salary_max # NoneNum /\ job.salary_max >= filters.min_salary
    /\ filters.max_salary # NoneNum =>
           job.salary_min # NoneNum /\ job.salary_min <= filters.max_salary
    /\ filters.job_types # {} => job.job_type \in filters.job_types
    /\ filters.remote_types # {} => job.remote_type \in filters.remote_types
    /\ filters.experience_levels # {} => job.experience_level \in filters.experience_levels
    /\ filters.locations # {} => \E loc \in filters.locations : LocationContains(job, loc)
    /\ filters.companies # {} => job.company \in filters.companies
    /\ NumTruthy(filters.max_age_days) =>
           job.age # NoneNum /\ job.age <= filters.max_age_days

\* _get_filtered_jobs(filters); dbFails: the session or the query raises
GetFilteredJobs(st, filters, dbFails) ==
    IF dbFails THEN <<>>
    ELSE IF filters = NoFilters THEN st
    ELSE SelectSeq(st, LAMBDA job : PassesFilters(job, filters))

\* job_repo.get_job(job_id)
GetJob(st, jobId, dbFails) ==
    IF dbFails \/ ~(\E i \in 1..Len(st) : st[i].id = jobId) THEN NoJob
    ELSE st[CHOOSE i \in 1..Len(st) : st[i].id = jobId]

(***************************************************************************)
(* SemanticSearchEngine: _calculate_job_match, search_jobs_semantic and    *)
(* find_similar_jobs.  `faults` says which embed_text calls of the         *)
(* operation, counted from 1, meet a failing model.encode.                 *)
(***************************************************************************)
FaultAt(faults, n) == IF n \in faults THEN "model" ELSE "ok"

\* job.location or "Not specified"
LocationOrDefault(job) ==
    IF StrTruthy(job.location) THEN job.location ELSE <<"Not", Space, "specified">>

\* one call of embed_text made by an operation of the search engine: for the
\* query, for the profile, or for the job with the given id
EmbedEvent(who, id, text) == [who |-> who, id |-> id, text |-> text]

\* _calculate_job_match, mutated: with a profile, the semantic score is the
\* similarity of the job to the profile instead of to the query
CalculateJobMatchByProfile(c, job, queryEmbedding, profile, fault) ==
    With(EmbedJobDescription(c, job, fault), LAMBDA e :
       IF e.out = "raised"
       THEN [val |-> NoMatch, cache |-> e.cache, texts |-> <<>>]
       ELSE LET semantic == IF ProfileAbsent(profile)
                            THEN CalculateSimilarity(queryEmbedding, e.val)
                            ELSE CalculateSimilarity(
                                     ModelEncode(ProfileText(profile)), e.val)
                skills == CalculateSkillsMatch(job, profile)
                experience == CalculateExperienceMatch(job, profile)
                salary == CalculateSalaryMatch(job, profile)
                location == CalculateLocationMatch(job, profile)
            IN [val |-> [job_id |-> job.id,
                         job_title |-> job.title,
                         company |-> job.company,
                         location |-> LocationOrDefault(job),
                         semantic_score |-> semantic,
                         skills_match_score |-> skills,
                         experience_match_score |-> experience,
                         salary_match_score |-> salary,
                         location_match_score |-> location,
                         overall_score |-> CalculateOverallScore(
                             semantic, skills, experience, salary, location)],
                cache |-> e.cache,
                texts |-> <<EmbedEvent("job", job.id, JobText(job))>>])

\* _calculate_job_match: the JobMatch, or NoMatch when anything in it raised;
\* texts lists the embed_text calls made
CalculateJobMatch(c, job, queryEmbedding, profile, fault) ==
    With(EmbedJobDescription(c, job, fault), LAMBDA e :
       IF e.out = "raised"
       THEN [val |-> NoMatch, cache |-> e.cache, texts |-> <<>>]
       ELSE LET semantic == CalculateSimilarity(queryEmbedding, e.val)
                skills == CalculateSkillsMatch(job, profile)
                experience == CalculateExperienceMatch(job, profile)
                salary == CalculateSalaryMatch(job, profile)
                location == CalculateLocationMatch(job, profile)
            IN [val |-> [job_id |-> job.id,
                         job_title |-> job.title,
                         company |-> job.company,
                         location |-> LocationOrDefault(job),
                         semantic_score |-> semantic,
                         skills_match_score |-> skills,
                         experience_match_score |-> experience,
                         salary_match_score |-> salary,
                         location_match_score |-> location,
                         overall_score |-> CalculateOverallScore(
                             semantic, skills, experience, salary, location)],
                cache |-> e.cache,
                texts |-> <<EmbedEvent("job", job.id, JobText(job))>>])

RECURSIVE MatchAllAbort(_, _, _, _, _, _)
\* the loop of search_jobs_semantic, mutated: the first candidate whose match
\* fails ends the loop
MatchAllAbort(c, n, jobs, queryEmbedding, profile, faults) ==
    IF Len(jobs) = 0 THEN [matches |-> <<>>, cache |-> c, texts |-> <<>>]
    ELSE With(CalculateJobMatch(c, Head(jobs), queryEmbedding, profile,
                                FaultAt(faults, n)), LAMBDA m :
         IF m.val = NoMatch
         THEN [matches |-> <<>>, cache |-> m.cache, texts |-> m.texts]
         ELSE With(MatchAllAbort(m.cache, n + Len(m.texts), Tail(jobs),
                                 queryEmbedding, profile, faults), LAMBDA rest :
                 [matches |-> <<m.val>> \o rest.matches,
                  cache |-> rest.cache,
                  texts |-> m.texts \o rest.texts]))

RECURSIVE MatchAll(_, _, _, _, _, _)
\* the loop of search_jobs_semantic over the candidate jobs; n is the number
\* of the next embed_text call
MatchAll(c, n, jobs, queryEmbedding, profile, faults) ==
    IF Len(jobs) = 0 THEN [matches |-> <<>>, cache |-> c, texts |-> <<>>]
    ELSE With(CalculateJobMatch(c, Head(jobs), queryEmbedding, profile,
                                FaultAt(faults, n)), LAMBDA m :
         With(MatchAll(m.cache, n + Len(m.texts), Tail(jobs),
                       queryEmbedding, profile, faults), LAMBDA rest :
            [matches |-> (IF m.val # NoMatch THEN <<m.val>> ELSE <<>>) \o rest.matches,
             cache |-> rest.cache,
             texts |-> m.texts \o rest.texts]))

\* search_jobs_semantic once it has candidates: the query and the profile
\* are embedded, every candidate is matched, the matches sorted and cut
ScoreCandidates(jobs, c, query, profile, limit, faults) ==
    With(EmbedText(c, query, TRUE, FaultAt(faults, 1)), LAMBDA q :
    IF q.out = "raised"
    THEN [out |-> "raised", val |-> <<>>, cache |-> q.cache,
          texts |-> <<EmbedEvent("query", "", query)>>]
    ELSE With(IF ProfileAbsent(profile)
              THEN [out |-> "returned", val |-> NoVec, cache |-> q.cache]
              ELSE EmbedUserProfile(q.cache, profile, FaultAt(faults, 2)),
              LAMBDA u :
         LET first == IF ProfileAbsent(profile) \/ u.out = "raised"
                      THEN <<EmbedEvent("query", "", query)>>
                      ELSE <<EmbedEvent("query", "", query),
                             EmbedEvent("profile", "", ProfileText(profile))>>
         IN IF u.out = "raised"
            THEN [out |-> "raised", val |-> <<>>, cache |-> u.cache,
                  texts |-> first]
            ELSE With(MatchAll(u.cache, Len(first) + 1, jobs, q.val,
                               profile, faults), LAMBDA all :
                    [out |-> "returned",
                     val |-> Take(SortByOverallScore(all.matches), limit),
                     cache |-> all.cache,
                     texts |-> first \o all.texts])))

\* the try block of search_jobs_semantic, mutated: the query is embedded
\* before the candidates are looked at
SearchBodyEmbedFirst(st, c, query, profile, filters, limit, dbFails, faults) ==
    LET jobs == GetFilteredJobs(st, filters, dbFails)
    IN IF Len(jobs) = 0
       THEN With(EmbedText(c, query, TRUE, FaultAt(faults, 1)), LAMBDA q :
                [out |-> "returned", val |-> <<>>, cache |-> q.cache,
                 texts |-> <<EmbedEvent("query", "", query)>>])
       ELSE ScoreCandidates(jobs, c, query, profile, limit, faults)

\* the try block of search_jobs_semantic: the candidates are filtered first
\* and an empty candidate list ends the search
SearchBody(st, c, query, profile, filters, limit, dbFails, faults) ==
    LET jobs == GetFilteredJobs(st, filters, dbFails)
    IN IF Len(jobs) = 0
       THEN [out |-> "returned", val |-> <<>>, cache |-> c, texts |-> <<>>]
       ELSE ScoreCandidates(jobs, c, query, profile, limit, faults)

\* search_jobs_semantic: whatever the try block raises is logged and [] returned
SearchJobsSemantic(st, c, query, profile, filters, limit, dbFails, faults) ==
    With(SearchBody(st, c, query, profile, filters, limit, dbFails, faults), LAMBDA r :
        IF r.out = "raised" THEN [r EXCEPT !.out = "returned", !.val = <<>>] ELSE r)

SimilarityThreshold == 300

\* similarity > 0.3
SimilarEnough(similarity) == Gt(similarity, SimilarityThreshold)

\* the reference-job test of find_similar_jobs, mutated: nothing is skipped
IsReferenceNever(job, jobId) == FALSE

\* job.id == job_id
IsReference(job, jobId) == job.id = jobId

\* the JobMatch find_similar_jobs builds: only semantic_score is computed
SimilarMatch(job, similarity) ==
    [job_id |-> job.id,
     job_title |-> job.title,
     company |-> job.company,
     location |-> LocationOrDefault(job),
     semantic_score |-> similarity,
     skills_match_score |-> 0,
     experience_match_score |-> 0,
     salary_match_score |-> 0,
     location_match_score |-> 0,
     overall_score |-> similarity]

RECURSIVE SimilarAll(_, _, _, _, _, _)
\* the loop of find_similar_jobs over all jobs; a job whose embedding raises
\* is logged and skipped
SimilarAll(c, n, jobs, jobId, refEmbedding, faults) ==
    IF Len(jobs) = 0 THEN [matches |-> <<>>, cache |-> c, texts |-> <<>>]
    ELSE IF IsReference(Head(jobs), jobId)
         THEN SimilarAll(c, n, Tail(jobs), jobId, refEmbedding, faults)
         ELSE With(EmbedJobDescription(c, Head(jobs), FaultAt(faults, n)), LAMBDA e :
              LET called == IF e.out = "raised" THEN <<>>
                            ELSE <<EmbedEvent("job", Head(jobs).id, JobText(Head(jobs)))>>
                  similarity == CalculateSimilarity(refEmbedding, e.val)
              IN With(SimilarAll(e.cache, n + Len(called), Tail(jobs), jobId,
                                 refEmbedding, faults), LAMBDA rest :
                 [matches |->
                      (IF e.out # "raised" /\ SimilarEnough(similarity)
                       THEN <<SimilarMatch(Head(jobs), similarity)>> ELSE <<>>)
                      \o rest.matches,
                  cache |-> rest.cache,
                  texts |-> called \o rest.texts]))

\* the try block of find_similar_jobs; dbFault names the database access
\* that raises: "get_job", "query" or none ("ok")
FindSimilarBody(st, c, jobId, limit, dbFault, faults) ==
    LET ref == GetJob(st, jobId, dbFault = "get_job")
    IN IF ref = NoJob
       THEN [out |-> "returned", val |-> <<>>, cache |-> c, texts |-> <<>>]
       ELSE With(EmbedJobDescription(c, ref, FaultAt(faults, 1)), LAMBDA r :
            IF r.out = "raised"
            THEN [out |-> "raised", val |-> <<>>, cache |-> r.cache, texts |-> <<>>]
            ELSE With(SimilarAll(r.cache, 2,
                                 GetFilteredJobs(st, NoFilters, dbFault = "query"),
                                 jobId, r.val, faults), LAMBDA all :
                    [out |-> "returned",
                     val |-> Take(SortBySemanticScore(all.matches), limit),
                     cache |-> all.cache,
                     texts |-> <<EmbedEvent("job", ref.id, JobText(ref))>> \o all.texts]))

\* find_similar_jobs without its outer except clause
FindSimilarJobsUncaught(st, c, jobId, limit, dbFault, faults) ==
    FindSimilarBody(st, c, jobId, limit, dbFault, faults)

\* find_similar_jobs: whatever the try block raises is logged and [] returned
FindSimilarJobs(st, c, jobId, limit, dbFault, faults) ==
    With(FindSimilarBody(st, c, jobId, limit, dbFault, faults), LAMBDA r :
        IF r.out = "raised" THEN [r EXCEPT !.out = "returned", !.val = <<>>] ELSE r)

(***************************************************************************)
(* The inputs tried.                                                       *)
(***************************************************************************)
Idle == [op |-> "idle"]

BaseJob ==
    [id |-> "j0", title |-> <<"Py">>, company |-> "Acme", location |-> <<"Ny">>,
     remote_type |-> "on_site", job_type |-> "full_time",
     experience_level |-> "mid_level", description |-> <<"py">>,
     requirements |-> NoneList, responsibilities |-> NoneList,
     skills_required |-> NoneList, skills_preferred |-> NoneList,
     salary_min |-> NoneNum, salary_max |-> NoneNum, age |-> 1]

\* a hybrid entry-level design job, unlike a "py" query
JobUx ==
    [BaseJob EXCEPT !.id = "j1", !.title = <<"Ux">>, !.description = <<"ux">>,
                    !.remote_type = "hybrid", !.job_type = "contract",
                    !.experience_level = "entry_level",
                    !.skills_required = << <<"Ux">> >>,
                    !.salary_min = 8, !.salary_max = 9, !.age = 5]

\* a remote senior job with an open-ended salary, posted 40 days ago
JobMl ==
    [BaseJob EXCEPT !.id = "j2", !.title = <<"Ml">>, !.description = <<"ml">>,
                    !.company = "Globex", !.location = <<"Remote">>,
                    !.remote_type = "remote", !.experience_level = "senior_level",
                    !.skills_required = << <<"Ml">>, <<"py">> >>,
                    !.salary_min = 10, !.age = 40]

\* a row whose requirements column holds a number in its list and whose
\* nullable columns are NULL
JobBad ==
    [BaseJob EXCEPT !.id = "j3", !.company = "", !.location = NoneStr,
                    !.remote_type = None, !.experience_level = None,
                    !.requirements = <<NonStr>>, !.age = NoneNum]

\* an on-site mid-level job that matches a "py" query
JobPy ==
    [BaseJob EXCEPT !.id = "j4", !.company = "Initech",
                    !.skills_required = << <<"Py">> >>,
                    !.skills_preferred = << <<"ml">> >>,
                    !.salary_min = 10, !.salary_max = 15, !.age = 3]

JobPool == <<JobUx, JobMl, JobBad, JobPy>>

RECURSIVE Pick(_, _)
\* the rows of pool at the positions idx, in pool order
Pick(pool, idx) ==
    IF idx = {} THEN <<>>
    ELSE LET m == CHOOSE i \in idx : \A j \in idx : i <= j
         IN <<pool[m]>> \o Pick(pool, idx \ {m})

Stores ==
    {Pick(JobPool, idx) : idx \in {x \in SUBSET (1..Len(JobPool)) : Cardinality(x) <= MaxJobs}}

BaseProfile ==
    [skills |-> << <<"Py">>, <<"ml">> >>, current_title |-> <<"Py">>,
     experience_years |-> 4, preferred_titles |-> NoneList,
     preferred_locations |-> << <<"Ny">> >>,
     desired_salary_min |-> 12, desired_salary_max |-> 20, industry |-> NoneStr]

\* a profile with an open-ended desired salary
OpenProfile ==
    [BaseProfile EXCEPT !.experience_years = 0,
                        !.preferred_locations = << <<"Remote">> >>,
                        !.desired_salary_min = 8, !.desired_salary_max = NoneNum]

ProfilePool == {NoProfile, BaseProfile, OpenProfile}

SalaryFilters == [DefaultFilters EXCEPT !.min_salary = 9, !.max_age_days = NoneNum]

\* filters that ask for one skill and exclude another, with no age limit
SkillFilters ==
    [DefaultFilters EXCEPT !.required_skills = {<<"ux">>},
                           !.excluded_skills = {<<"py">>},
                           !.max_age_days = NoneNum]

FilterPool == {NoFilters, DefaultFilters, SalaryFilters, SkillFilters}

Queries == {<<"py">>, <<Space>>, NonStr}

JobIds == {"j1", "j2", "j3", "j4", "zz"}

Limits == 0..MaxLimit

\* the embed_text calls of one operation that can meet a failing model
FaultSets == {f \in SUBSET (1..(MaxJobs + 2)) : Cardinality(f) <= MaxFaults}

\* what can fail during one search: the database query, or model.encode on
\* some of the embed_text calls
SearchFaults ==
    {[db |-> TRUE, model |-> {}]} \cup {[db |-> FALSE, model |-> f] : f \in FaultSets}

\* what can fail during one find_similar_jobs: get_job, the candidate query,
\* or model.encode on some of the embed_text calls
SimilarFaults ==
    {[db |-> d, model |-> {}] : d \in {"get_job", "query"}}
        \cup {[db |-> "ok", model |-> f] : f \in FaultSets}

RawTexts ==
    {<<>>, <<Space>>, <<"py">>, <<Space, "py">>, <<"py", Space, "ml", Space>>}

RECURSIVE SeqsUpTo(_, _)
\* the sequences over S of length at most n
SeqsUpTo(S, n) ==
    IF n = 0 THEN {<<>>}
    ELSE LET shorter == SeqsUpTo(S, n - 1)
         IN shorter \cup {Append(q, x) : q \in shorter, x \in S}

(***************************************************************************)
(* The embedding service as a state machine.                               *)
(***************************************************************************)
\* the caller takes the result of the completed call
Respond ==
    /\ call # Idle
    /\ call' = Idle
    /\ UNCHANGED <<store, client, cache, history>>

\* whether model.encode was called and raised in embed_text(text, useCache)
ModelFailed(c, text, useCache, fault) ==
    /\ text # NonStr
    /\ ~IsBlank(text)
    /\ fault = "model"
    /\ ~(useCache /\ GetCacheKey(Strip(text)) \in DOMAIN c)

\* the cache key of a text: of its stripped form, or of "" for a blank text
KeyOf(text) == IF IsBlank(text) THEN <<>> ELSE GetCacheKey(Strip(text))

EmbedTextCall ==
    /\ call = Idle
    /\ \E text \in RawTexts, useCache \in BOOLEAN, fault \in FaultKinds :
        LET r == EmbedText(cache, text, useCache, fault)
            failed == ModelFailed(cache, text, useCache, fault)
        IN /\ cache' = r.cache
           /\ call' = [op |-> "embed_text", text |-> text, use_cache |-> useCache,
                       fault |-> fault, failed |-> failed, out |-> r.out, val |-> r.val]
           /\ history' = history \cup {<<KeyOf(text), r.val, failed>>}
    /\ UNCHANGED <<store, client>>

\* the positions of a batch at which embed_texts reads a cache file, the
\* places where a failing read can happen
CachedPositions(c, texts, useCache) ==
    {i \in 1..Len(texts) : useCache /\ ~IsBlank(texts[i]) /\ KeyOf(texts[i]) \in DOMAIN c}

\* the positions of a batch at which embed_texts writes a cache file, the
\* places where a failing write can happen
SavedPositions(c, texts, useCache, modelFails, loadFail) ==
    IF useCache /\ ~modelFails
    THEN IndicesToEmbed(texts, EmbedTextsLookup(c, texts, useCache, loadFail))
    ELSE {}

EmbedTextsCall ==
    /\ call = Idle
    /\ \E texts \in SeqsUpTo(RawTexts, MaxBatch), useCache \in BOOLEAN,
          modelFails \in BOOLEAN :
        \E loadFail \in SUBSET CachedPositions(cache, texts, useCache) :
          \E saveFail \in SUBSET SavedPositions(cache, texts, useCache, modelFails, loadFail) :
            \E r \in {EmbedTexts(cache, texts, useCache, modelFails, loadFail, saveFail)} :
               /\ cache' = r.cache
               /\ call' = [op |-> "embed_texts", texts |-> texts, use_cache |-> useCache,
                           model_fails |-> modelFails, load_fail |-> loadFail,
                           save_fail |-> saveFail, before |-> cache,
                           sent |-> r.sent, out |-> r.out, val |-> r.val]
    /\ UNCHANGED <<store, client, history>>

ClearCache ==
    /\ call = Idle
    /\ cache' = ClearCacheDir(cache)
    /\ call' = [op |-> "clear_cache"]
    /\ UNCHANGED <<store, client, history>>

Init ==
    /\ store = <<>>
    /\ client = FALSE
    /\ cache = <<>>
    /\ call = Idle
    /\ history = {}

Next == EmbedTextCall \/ EmbedTextsCall \/ ClearCache \/ Respond

Spec == Init /\ [][Next]_vars

(***************************************************************************)
(* embed_text run by concurrent requests, with no lock around the cache.   *)
(* Each request runs the statements of embed_text, _load_from_cache and    *)
(* _save_to_cache in order; the statements of different requests           *)
(* interleave.  `call` holds one record per request and `cache` one entry  *)
(* per cache file: the pickled vector, or Truncated between open(.., 'wb') *)
(* and the end of pickle.dump, when the file holds no complete pickle.     *)
(***************************************************************************)
MaxRequests == 2

Requests == 1..MaxRequests

Truncated == <<"#truncated">>

ConcurrentTexts == {<<Space>>, <<"py">>, <<Space, "py">>, <<"ml">>}

NoRequest ==
    [pc |-> "idle", text |-> <<>>, emb |-> NoVec, val |-> NoVec,
     failed |-> FALSE, hit |-> FALSE, torn |-> FALSE]

\* pickle.load(f), mutated: a file without a complete pickle loads as the
\* part of the vector written so far, zeros elsewhere
PickleLoadPartial(content) ==
    IF content = Truncated THEN [out |-> "returned", val |-> Zeros]
    ELSE [out |-> "returned", val |-> content]

\* pickle.load(f): a file without a complete pickle raises EOFError or
\* UnpicklingError
PickleLoad(content) ==
    IF content = Truncated THEN [out |-> "raised", val |-> NoVec]
    ELSE [out |-> "returned", val |-> content]

\* embed_text up to the cache check: a blank text returns the zero vector
EmbedTextBegin ==
    \E p \in Requests, text \in ConcurrentTexts :
        /\ call[p].pc = "idle"
        /\ call' = [call EXCEPT ![p] =
                      IF IsBlank(text)
                      THEN [NoRequest EXCEPT !.pc = "done", !.val = Zeros]
                      ELSE [NoRequest EXCEPT !.pc = "exists", !.text = Strip(text)]]
        /\ UNCHANGED <<store, client, cache, history>>

\* _load_from_cache: cache_path.exists()
CachePathExists ==
    \E p \in Requests :
        /\ call[p].pc = "exists"
        /\ call' = [call EXCEPT ![p].pc =
                      IF GetCacheKey(call[p].text) \in DOMAIN cache THEN "load" ELSE "encode"]
        /\ UNCHANGED <<store, client, cache, history>>

\* _load_from_cache: open and pickle.load; a failure is logged and None is
\* returned, and embed_text goes on to the model
CacheFileLoad ==
    \E p \in Requests :
        /\ call[p].pc = "load"
        /\ \E r \in {PickleLoad(cache[GetCacheKey(call[p].text)])} :
              call' = [call EXCEPT ![p] =
                         IF r.out = "raised"
                         THEN [@ EXCEPT !.pc = "encode", !.torn = TRUE]
                         ELSE [@ EXCEPT !.pc = "done", !.val = r.val, !.hit = TRUE]]
        /\ UNCHANGED <<store, client, cache, history>>

\* self.model.encode(text): the embedding, or a failure that embed_text
\* answers with the zero vector
EncodeText ==
    \E p \in Requests, modelFails \in BOOLEAN :
        /\ call[p].pc = "encode"
        /\ call' = [call EXCEPT ![p] =
                      IF modelFails
                      THEN [@ EXCEPT !.pc = "done", !.val = Zeros, !.failed = TRUE]
                      ELSE [@ EXCEPT !.pc = "open", !.emb = ModelEncode(call[p].text)]]
        /\ UNCHANGED <<store, client, cache, history>>

\* _save_to_cache: open(cache_path, 'wb') creates the file or empties it
CacheFileOpen ==
    \E p \in Requests :
        /\ call[p].pc = "open"
        /\ cache' = SaveToCache(cache, GetCacheKey(call[p].text), Truncated, "ok")
        /\ call' = [call EXCEPT ![p].pc = "dump"]
        /\ UNCHANGED <<store, client, history>>

\* _save_to_cache: pickle.dump and the close of the file put the whole
\* pickle in place; embed_text then returns the embedding
CacheFileDump ==
    \E p \in Requests :
        /\ call[p].pc = "dump"
        /\ cache' = SaveToCache(cache, GetCacheKey(call[p].text), call[p].emb, "ok")
        /\ call' = [call EXCEPT ![p] = [@ EXCEPT !.pc = "done", !.val = call[p].emb]]
        /\ UNCHANGED <<store, client, history>>

\* the caller has the result; the request slot is free again
EmbedTextReturn ==
    \E p \in Requests :
        /\ call[p].pc = "done"
        /\ call' = [call EXCEPT ![p] = NoRequest]
        /\ UNCHANGED <<store, client, cache, history>>

InitConcurrent ==
    /\ store = <<>>
    /\ client = FALSE
    /\ cache = <<>>
    /\ call = [p \in Requests |-> NoRequest]
    /\ history = {}

NextConcurrent ==
    \/ EmbedTextBegin
    \/ CachePathExists
    \/ CacheFileLoad
    \/ EncodeText
    \/ CacheFileOpen
    \/ CacheFileDump
    \/ EmbedTextReturn

SpecConcurrent == InitConcurrent /\ [][NextConcurrent]_vars

(***************************************************************************)
(* The search engine as a state machine over a job table.                  *)
(***************************************************************************)
\* the table after a session detached the rows it had queried with
\* session.delete in place of session.expunge, and committed
DeleteAndCommit(st, jobs) ==
    SelectSeq(st, LAMBDA row : \A i \in 1..Len(jobs) : jobs[i].id # row.id)

\* the table after the session of _get_filtered_jobs or get_job: the rows
\* queried are detached with session.expunge, no attribute of a row was
\* assigned, and the commit on leaving the session has nothing to write
ExpungeAndCommit(st, jobs) == st

\* the caller's profile dict after a search: the scorers read it with .get
\* and [] and build new sets and lists from what they read
ProfileAfterScoring(profile) == profile

\* a failing model is told apart only at the embed_text calls an operation
\* makes; `made` is how many it makes, which no failure changes
Search ==
    /\ call = Idle
    /\ \E query \in Queries, profile \in ProfilePool, filters \in FilterPool :
        \E made \in {Len(SearchJobsSemantic(store, cache, query, profile, filters,
                                            0, FALSE, {}).texts)} :
        \E limit \in Limits, f \in {x \in SearchFaults : x.model \subseteq 1..made} :
        \E r \in {SearchJobsSemantic(store, cache, query, profile, filters, limit,
                                     f.db, f.model)} :
           /\ cache' = r.cache
           /\ store' = ExpungeAndCommit(store, GetFilteredJobs(store, filters, f.db))
           /\ call' = [op |-> "search", query |-> query, profile |-> profile,
                       filters |-> filters, limit |-> limit, db_fails |-> f.db,
                       faults |-> f.model, before |-> cache,
                       profile_after |-> ProfileAfterScoring(profile),
                       embedded |-> r.texts, out |-> r.out, val |-> r.val]
    /\ UNCHANGED <<client, history>>

FindSimilar ==
    /\ call = Idle
    /\ \E jobId \in JobIds :
        \E made \in {Len(FindSimilarJobs(store, cache, jobId, 0, "ok", {}).texts)} :
        \E limit \in Limits, f \in {x \in SimilarFaults : x.model \subseteq 1..made} :
        \E r \in {FindSimilarJobs(store, cache, jobId, limit, f.db, f.model)} :
           /\ cache' = r.cache
           /\ store' = ExpungeAndCommit(store,
                            IF GetJob(store, jobId, f.db = "get_job") = NoJob
                            THEN <<>>
                            ELSE GetFilteredJobs(store, NoFilters, f.db = "query"))
           /\ call' = [op |-> "find_similar", job_id |-> jobId, limit |-> limit,
                       db_fault |-> f.db, faults |-> f.model, before |-> cache,
                       embedded |-> r.texts, out |-> r.out, val |-> r.val]
    /\ UNCHANGED <<client, history>>

InitSearch ==
    /\ store \in Stores
    /\ client = FALSE
    /\ cache = <<>>
    /\ call = Idle
    /\ history = {}

NextSearch == Search \/ FindSimilar \/ Respond

SpecSearch == InitSearch /\ [][NextSearch]_vars

(***************************************************************************)
(* The scoring functions on their own: each action applies one of them to  *)
(* inputs drawn from the sets below.                                       *)
(***************************************************************************)
SkillLists ==
    {NoneList, <<>>, << <<"Py">> >>, << <<"py">>, <<"ml">> >>, << <<"ux">> >>, <<NonStr>>}

ExperienceLevels == Levels \cup {None, "Mid_Level", "intern"}

ExperienceYears == {NoneNum} \cup (0..MaxYears)

SalaryValues == {NoneNum, 0, 8, 10, 12, 15, 20}

JobLocations == {NoneStr, <<>>, <<"Ny">>, <<"Ux", Space, "Ny">>}

RemoteTypes == {None, "remote", "Hybrid", "on_site"}

LocationLists ==
    {NoneList, <<>>, << <<"Ny">> >>, << <<"Remote">> >>, << <<"ux">>, <<"ml">> >>,
     << <<"Ux", Space, "Ny">> >>, <<NonStr>>}

\* sub-scores and semantic scores in [0, 1], with values off the grid of
\* hundredths so that the rounding is exercised
ScoreGrid == {0, 1, 333, 500, 667, 999, Unit}

\* embeddings with coordinates in -MaxCoord..MaxCoord, and a missing one
Vectors == {Vec(x, y) : x, y \in (0 - MaxCoord)..MaxCoord} \cup {NoVec}

SkillsMatch ==
    /\ call = Idle
    /\ \E required \in SkillLists, preferred \in SkillLists,
          profile \in {NoProfile} \cup {[BaseProfile EXCEPT !.skills = l] : l \in SkillLists} :
        LET job == [BaseJob EXCEPT !.skills_required = required,
                                   !.skills_preferred = preferred]
        IN call' = [op |-> "skills_match", job |-> job, profile |-> profile,
                    val |-> CalculateSkillsMatch(job, profile)]
    /\ UNCHANGED <<store, client, cache, history>>

ExperienceMatch ==
    /\ call = Idle
    /\ \E level \in ExperienceLevels,
          profile \in {NoProfile}
              \cup {[BaseProfile EXCEPT !.experience_years = y] : y \in ExperienceYears} :
        LET job == [BaseJob EXCEPT !.experience_level = level]
        IN call' = [op |-> "experience_match", job |-> job, profile |-> profile,
                    val |-> CalculateExperienceMatch(job, profile)]
    /\ UNCHANGED <<store, client, cache, history>>

SalaryMatch ==
    /\ call = Idle
    /\ \E jobMin \in SalaryValues, jobMax \in SalaryValues,
          profile \in {NoProfile}
              \cup {[BaseProfile EXCEPT !.desired_salary_min = lo,
                                        !.desired_salary_max = hi] :
                        lo \in SalaryValues, hi \in SalaryValues} :
        LET job == [BaseJob EXCEPT !.salary_min = jobMin, !.salary_max = jobMax]
        IN call' = [op |-> "salary_match", job |-> job, profile |-> profile,
                    val |-> CalculateSalaryMatch(job, profile)]
    /\ UNCHANGED <<store, client, cache, history>>

LocationMatch ==
    /\ call = Idle
    /\ \E location \in JobLocations, remote \in RemoteTypes,
          profile \in {NoProfile}
              \cup {[BaseProfile EXCEPT !.preferred_locations = l] : l \in LocationLists} :
        LET job == [BaseJob EXCEPT !.location = location, !.remote_type = remote]
        IN call' = [op |-> "location_match", job |-> job, profile |-> profile,
                    val |-> CalculateLocationMatch(job, profile)]
    /\ UNCHANGED <<store, client, cache, history>>

OverallScore ==
    /\ call = Idle
    /\ \E semantic \in ScoreGrid, skills \in ScoreGrid, experience \in ScoreGrid,
          salary \in ScoreGrid, location \in ScoreGrid :
        call' = [op |-> "overall_score", semantic |-> semantic, skills |-> skills,
                 experience |-> experience, salary |-> salary, location |-> location,
                 val |-> CalculateOverallScore(semantic, skills, experience,
                                               salary, location)]
    /\ UNCHANGED <<store, client, cache, history>>

Similarity ==
    /\ call = Idle
    /\ \E e1 \in Vectors, e2 \in Vectors :
        call' = [op |-> "similarity", embedding1 |-> e1, embedding2 |-> e2,
                 val |-> CalculateSimilarity(e1, e2)]
    /\ UNCHANGED <<store, client, cache, history>>

\* the query embeddings and the candidate embeddings handed to
\* find_most_similar: candidates alike, opposed and orthogonal to a query,
\* the zero vector and a missing one
QueryVectors == {Vec(1, 0), Vec(1, 1)}

CandidateVectors == {Vec(1, 0), Vec(2, 0), Vec(0 - 1, 0), Vec(0, 1), Zeros, NoVec}

MostSimilar ==
    /\ call = Idle
    /\ \E query \in QueryVectors, candidates \in SeqsUpTo(CandidateVectors, MaxCandidates),
          topK \in 0..(MaxCandidates + 1) :
        call' = [op |-> "most_similar", query |-> query, candidates |-> candidates,
                 top_k |-> topK, val |-> FindMostSimilar(query, candidates, topK)]
    /\ UNCHANGED <<store, client, cache, history>>

\* the jobs, profiles and scores handed to _generate_match_reasons: scores
\* on each side of every threshold of the rules
ReasonJobs ==
    {[BaseJob EXCEPT !.company = company, !.experience_level = level,
                     !.salary_min = salaryMin, !.remote_type = remote,
                     !.skills_required = required] :
        company \in {"", "Acme"}, level \in {None, "mid_level"},
        salaryMin \in {NoneNum, 10}, remote \in {None, "remote", "hybrid"},
        required \in {<< <<"py">>, <<"Ml">> >>, << <<"ux">> >>}}

ReasonProfiles == {NoProfile, BaseProfile}

\* the orders in which the matching skills may be iterated
SkillOrders(job, profile, skills) ==
    IF SkillsReasonTried(profile, skills) /\ ~SkillsReasonRaises(job, profile)
    THEN Orderings(MatchingSkills(job, profile))
    ELSE {<<>>}

MatchReasons ==
    /\ call = Idle
    /\ \E job \in ReasonJobs, profile \in ReasonProfiles,
          semantic \in {Half, 600, 800}, skills \in {700, 800},
          experience \in {300, 400, 700, 900}, salary \in {200, 300, 800, NaN},
          location \in {800, 900} :
        \E order \in SkillOrders(job, profile, skills) :
        \E r \in {GenerateMatchReasons(job, profile, semantic, skills, experience,
                                       salary, location, order)} :
            call' = [op |-> "match_reasons", job |-> job, profile |-> profile,
                     semantic |-> semantic, skills |-> skills,
                     experience |-> experience, salary |-> salary,
                     location |-> location, order |-> order,
                     out |-> r.out, val |-> r.val]
    /\ UNCHANGED <<store, client, cache, history>>

InitScore ==
    /\ store = <<>>
    /\ client = FALSE
    /\ cache = <<>>
    /\ call = Idle
    /\ history = {}

NextScore ==
    \/ SkillsMatch
    \/ ExperienceMatch
    \/ SalaryMatch
    \/ LocationMatch
    \/ OverallScore
    \/ Similarity
    \/ MostSimilar
    \/ MatchReasons
    \/ Respond

SpecScore == InitScore /\ [][NextScore]_vars

(***************************************************************************)
(* LLMAnalyzer.  A job or profile dictionary is the record of its fields;  *)
(* a key the dictionary does not have holds Missing, MissingList or        *)
(* MissingCompany.  A value the analyzer returns is tagged with its Python *)
(* type: a dict (a record of its items), a list, a str or None.  The LLM   *)
(* collaborator is its outcome: the request raises, or it answers a text.  *)
(***************************************************************************)
Missing == <<"#missing">>
MissingList == <<Missing>>
MissingCompany == "#missing"

PyDict(items) == [type |-> "dict", items |-> items]
PyList(items) == [type |-> "list", items |-> items]
PyStr(text) == [type |-> "str", text |-> text]
PyNone == [type |-> "None"]

\* bool(v) of a returned value
PyTruthy(v) ==
    CASE v.type = "dict" -> DOMAIN v.items # {}
      [] v.type = "list" -> Len(v.items) > 0
      [] v.type = "str" -> Len(v.text) > 0
      [] OTHER -> FALSE

Raised(name) == [out |-> "raised", val |-> [type |-> "exception", name |-> name]]
Returned(v) == [out |-> "returned", val |-> v]

\* d.get(key) of a list field and of a string field
GetList(l) == IF l = MissingList THEN NoneList ELSE l
GetStr(x) == IF x = Missing THEN NoneStr ELSE x

\* text.strip()
StripAny(text) == IF IsBlank(text) THEN <<>> ELSE Strip(text)

\* '; '.join(l) and ', '.join(l) raise TypeError on an item that is not a string
JoinRaises(l) == Truthy(GetList(l)) /\ ~IsStrList(l)

\* _prepare_job_text raises
PrepareJobTextRaises(job) ==
    \/ JoinRaises(job.requirements)
    \/ JoinRaises(job.responsibilities)
    \/ JoinRaises(job.skills_required)
    \/ JoinRaises(job.skills_preferred)

\* _prepare_profile_text raises: None has no .get, and the joins
PrepareProfileTextRaises(profile) ==
    \/ profile = NoProfile
    \/ JoinRaises(profile.skills)
    \/ JoinRaises(profile.preferred_titles)
    \/ JoinRaises(profile.preferred_locations)

\* _prepare_scores_text raises: int(value * 100) of a nan
PrepareScoresTextRaises(scores) == \E k \in DOMAIN scores : IsNaN(scores[k])

LLMError == [kind |-> "error", text |-> NoneStr]
LLMText(t) == [kind |-> "text", text |-> t]

\* _make_llm_request: None without a client or when the request raises
MakeLLMRequest(cl, outcome) ==
    IF ~cl THEN NoneStr
    ELSE IF outcome.kind = "error" THEN NoneStr
    ELSE outcome.text

\* the member names a JSON object of a response can have
JsonKeys ==
    {"required_skills", "soft_skills", "experience_level", "key_responsibilities",
     "growth_opportunities", "culture_indicators", "nice_to_have", "difficulty_level",
     "missing_skills", "matching_skills", "learning_priorities", "time_estimates",
     "learning_suggestions", "transferable_skills",
     "key_selling_points", "concerns_to_address", "resume_highlights",
     "cover_letter_themes", "interview_prep", "company_research",
     "application_timing", "note"}

\* json.loads(text): null, an empty array, or an object given by its member
\* names between braces; anything else is a JSONDecodeError (ok = FALSE)
JsonLoads(text) ==
    LET t == StripAny(text)
    IN IF t = <<"null">> THEN [ok |-> TRUE, val |-> PyNone]
       ELSE IF t = <<"[", "]">> THEN [ok |-> TRUE, val |-> PyList(<<>>)]
       ELSE IF /\ Len(t) >= 2
               /\ t[1] = "{"
               /\ t[Len(t)] = "}"
               /\ \A i \in 2..(Len(t) - 1) : t[i] \in JsonKeys
       THEN [ok |-> TRUE,
             val |-> PyDict([k \in {t[i] : i \in 2..(Len(t) - 1)} |-> "json"])]
       ELSE [ok |-> FALSE, val |-> PyNone]

\* the skills list _fallback_job_analysis collects
FallbackSkills(job) ==
    (IF Truthy(GetList(job.skills_required)) THEN job.skills_required ELSE <<>>)
    \o (IF Truthy(GetList(job.skills_preferred)) THEN job.skills_preferred ELSE <<>>)

\* _fallback_job_analysis: job_dict.get('responsibilities', [])[:3] raises
\* TypeError when the key holds None
FallbackJobAnalysis(job) ==
    IF job.responsibilities = NoneList THEN Raised("TypeError")
    ELSE LET skills == FallbackSkills(job)
             responsibilities ==
                 IF job.responsibilities = MissingList THEN <<>> ELSE job.responsibilities
         IN Returned(PyDict(
                [required_skills |-> Take(skills, 5),
                 soft_skills |-> <<"Communication", "Problem Solving", "Teamwork">>,
                 experience_level |-> "3-5 years",
                 key_responsibilities |-> Take(responsibilities, 3),
                 growth_opportunities |-> <<"Skill development", "Career advancement">>,
                 culture_indicators |-> <<"Collaborative environment">>,
                 nice_to_have |-> IF Len(skills) > 5
                                  THEN SubSeq(skills, 6, Len(skills)) ELSE <<>>,
                 difficulty_level |-> 5]))

\* analyze_job_requirements
AnalyzeJobRequirements(cl, job, outcome) ==
    IF ~cl THEN FallbackJobAnalysis(job)
    ELSE IF PrepareJobTextRaises(job) THEN FallbackJobAnalysis(job)
    ELSE LET response == MakeLLMRequest(cl, outcome)
         IN IF StrTruthy(response)
            THEN IF JsonLoads(response).ok
                 THEN Returned(JsonLoads(response).val)
                 ELSE FallbackJobAnalysis(job)
            ELSE FallbackJobAnalysis(job)

\* f"{job_dict.get('title', 'position')}"
TitleOrPosition(job) ==
    IF job.title = Missing THEN <<"position">>
    ELSE IF job.title = NoneStr THEN <<"None">>
    ELSE job.title

\* f"{job_dict.get('company', 'this company')}"
CompanyOrThis(job) ==
    IF job.company = MissingCompany THEN <<"this", Space, "company">>
    ELSE <<job.company>>

StrongText(job) ==
    <<"strong", Space>> \o TitleOrPosition(job) \o <<Space, "at", Space>> \o CompanyOrThis(job)
GoodText(job) == <<"good", Space>> \o TitleOrPosition(job)
StretchText(job) == <<"stretch", Space>> \o TitleOrPosition(job)

\* match_scores.get('overall_score', 0)
OverallOf(scores) ==
    IF "overall_score" \in DOMAIN scores THEN scores.overall_score ELSE 0

\* _fallback_match_explanation with the strong tier starting above 0.7
FallbackMatchExplanationStrict(job, scores) ==
    LET overall == OverallOf(scores)
    IN IF overall = NoneNum THEN Raised("TypeError")
       ELSE IF Gt(overall, 700) THEN Returned(PyStr(StrongText(job)))
       ELSE IF Ge(overall, Half) THEN Returned(PyStr(GoodText(job)))
       ELSE Returned(PyStr(StretchText(job)))

\* _fallback_match_explanation: None >= 0.7 raises TypeError
FallbackMatchExplanation(job, scores) ==
    LET overall == OverallOf(scores)
    IN IF overall = NoneNum THEN Raised("TypeError")
       ELSE IF Ge(overall, 700) THEN Returned(PyStr(StrongText(job)))
       ELSE IF Ge(overall, Half) THEN Returned(PyStr(GoodText(job)))
       ELSE Returned(PyStr(StretchText(job)))

\* generate_match_explanation
GenerateMatchExplanation(cl, job, profile, scores, outcome) ==
    IF ~cl THEN FallbackMatchExplanation(job, scores)
    ELSE IF \/ PrepareJobTextRaises(job)
            \/ PrepareProfileTextRaises(profile)
            \/ PrepareScoresTextRaises(scores)
    THEN FallbackMatchExplanation(job, scores)
    ELSE LET response == MakeLLMRequest(cl, outcome)
         IN IF StrTruthy(response)
            THEN Returned(PyStr(StripAny(response)))
            ELSE FallbackMatchExplanation(job, scores)

\* set(l) of a list field that is truthy, else the empty set
SkillSet(l) == IF Truthy(GetList(l)) THEN {l[i] : i \in 1..Len(l)} ELSE {}

\* _fallback_skill_gaps; user_profile.get raises AttributeError on None.  The
\* lists are built from sets, so they are given as sets; the skill lists tried
\* have at most three items, which missing[:5] and missing[:3] keep whole
FallbackSkillGaps(job, profile) ==
    IF profile = NoProfile THEN Raised("AttributeError")
    ELSE LET jobSkills == SkillSet(job.skills_required)
             userSkills == SkillSet(profile.skills)
             missing == jobSkills \ userSkills
             matching == jobSkills \cap userSkills
         IN Returned(PyDict(
                [missing_skills |-> missing,
                 matching_skills |-> matching,
                 learning_priorities |-> missing,
                 time_estimates |-> [x \in missing |-> "2-3 months"],
                 learning_suggestions |->
                     [x \in missing |-> "Online courses and practice projects"],
                 transferable_skills |-> matching]))

\* identify_skill_gaps
IdentifySkillGaps(cl, job, profile, outcome) ==
    IF ~cl THEN FallbackSkillGaps(job, profile)
    ELSE IF PrepareJobTextRaises(job) \/ PrepareProfileTextRaises(profile)
    THEN FallbackSkillGaps(job, profile)
    ELSE LET response == MakeLLMRequest(cl, outcome)
         IN IF StrTruthy(response)
            THEN IF JsonLoads(response).ok
                 THEN Returned(JsonLoads(response).val)
                 ELSE FallbackSkillGaps(job, profile)
            ELSE FallbackSkillGaps(job, profile)

\* _fallback_application_strategy
FallbackApplicationStrategy(job) ==
    Returned(PyDict(
        [key_selling_points |->
             <<"Relevant experience", "Technical skills", "Problem-solving abilities">>,
         concerns_to_address |-> <<"Any experience gaps", "Salary expectations">>,
         resume_highlights |-> <<"Recent projects", "Key achievements", "Relevant skills">>,
         cover_letter_themes |->
             <<"Passion for the role", "Relevant experience", "Cultural fit">>,
         interview_prep |->
             <<"Technical questions", "Behavioral scenarios", "Company knowledge">>,
         company_research |-> <<"Company mission", "Recent news", "Team structure">>,
         application_timing |-> "Apply within 1-2 weeks for best visibility"]))

\* generate_application_strategy
GenerateApplicationStrategy(cl, job, profile, outcome) ==
    IF ~cl THEN FallbackApplicationStrategy(job)
    ELSE IF PrepareJobTextRaises(job) \/ PrepareProfileTextRaises(profile)
    THEN FallbackApplicationStrategy(job)
    ELSE LET response == MakeLLMRequest(cl, outcome)
         IN IF StrTruthy(response)
            THEN IF JsonLoads(response).ok
                 THEN Returned(JsonLoads(response).val)
                 ELSE FallbackApplicationStrategy(job)
            ELSE FallbackApplicationStrategy(job)

(***************************************************************************)
(* The analyzer as a state machine: the client is fixed at construction.   *)
(***************************************************************************)
\* a job with every list field filled
FullJob ==
    [BaseJob EXCEPT !.responsibilities = << <<"py">> >>,
                    !.skills_required = << <<"Py">>, <<"ux">> >>,
                    !.skills_preferred = << <<"ml">> >>]

\* the job_dict of the job-detail page for a row whose list columns are NULL:
\* the keys are there and hold None, and there is no company key
NullListsJob == [BaseJob EXCEPT !.company = MissingCompany]

\* a job_dict without the optional keys
SparseJob ==
    [BaseJob EXCEPT !.title = Missing, !.company = MissingCompany,
                    !.requirements = MissingList, !.responsibilities = MissingList,
                    !.skills_required = MissingList, !.skills_preferred = MissingList]

LLMJobs ==
    {FullJob, NullListsJob, SparseJob,
     [FullJob EXCEPT !.requirements = <<NonStr>>],
     [FullJob EXCEPT !.title = NoneStr]}

LLMProfiles == {NoProfile, BaseProfile, [BaseProfile EXCEPT !.skills = << <<"Py">> >>]}

AnalysisObject ==
    <<"{", "required_skills", "soft_skills", "experience_level", "key_responsibilities",
      "growth_opportunities", "culture_indicators", "nice_to_have", "difficulty_level", "}">>

ResponseTexts ==
    {<<>>, <<Space>>, <<"Great", Space, "match">>, <<Space, "Great", Space>>,
     <<"null">>, <<"[", "]">>, <<"{", "}">>, <<"{", "note", "}">>,
     AnalysisObject,
     <<"{", "missing_skills", "matching_skills", "}">>,
     <<Space, "{", "key_selling_points", "interview_prep", "}">>}

LLMOutcomes == {LLMError} \cup {LLMText(t) : t \in ResponseTexts}

ScoreDicts ==
    {[overall_score |-> x] : x \in {0, 499, Half, 699, 700, Unit, NaN, NoneNum}}
        \cup {[overall |-> 900, skills |-> Half]}

AnalyzeJob ==
    /\ call = Idle
    /\ \E job \in LLMJobs, outcome \in LLMOutcomes :
        \E r \in {AnalyzeJobRequirements(client, job, outcome)} :
            call' = [op |-> "analyze_job", job |-> job, outcome |-> outcome,
                     out |-> r.out, val |-> r.val]
    /\ UNCHANGED <<store, client, cache, history>>

ExplainMatch ==
    /\ call = Idle
    /\ \E job \in LLMJobs, profile \in LLMProfiles, scores \in ScoreDicts,
          outcome \in LLMOutcomes :
        \E r \in {GenerateMatchExplanation(client, job, profile, scores, outcome)} :
            call' = [op |-> "explain_match", job |-> job, profile |-> profile,
                     scores |-> scores, outcome |-> outcome,
                     out |-> r.out, val |-> r.val]
    /\ UNCHANGED <<store, client, cache, history>>

FindSkillGaps ==
    /\ call = Idle
    /\ \E job \in LLMJobs, profile \in LLMProfiles, outcome \in LLMOutcomes :
        \E r \in {IdentifySkillGaps(client, job, profile, outcome)} :
            call' = [op |-> "find_skill_gaps", job |-> job, profile |-> profile,
                     outcome |-> outcome, out |-> r.out, val |-> r.val]
    /\ UNCHANGED <<store, client, cache, history>>

BuildApplicationStrategy ==
    /\ call = Idle
    /\ \E job \in LLMJobs, profile \in LLMProfiles, outcome \in LLMOutcomes :
        \E r \in {GenerateApplicationStrategy(client, job, profile, outcome)} :
            call' = [op |-> "build_application_strategy", job |-> job,
                     profile |-> profile, outcome |-> outcome,
                     out |-> r.out, val |-> r.val]
    /\ UNCHANGED <<store, client, cache, history>>

InitLLM ==
    /\ store = <<>>
    /\ client \in BOOLEAN
    /\ cache = <<>>
    /\ call = Idle
    /\ history = {}

NextLLM ==
    \/ AnalyzeJob
    \/ ExplainMatch
    \/ FindSkillGaps
    \/ BuildApplicationStrategy
    \/ Respond

SpecLLM == InitLLM /\ [][NextLLM]_vars

(***************************************************************************)
(* The job-detail page of the web application (src/app.py, job_detail):    *)
(* the job is fetched, analysed, matched against the profile of the        *)
(* session, explained, and its similar jobs are listed.                    *)
(***************************************************************************)
DetailSimilarLimit == 5

\* the job_dict built by job_detail: it has no 'company' key
JobDict(job) == [job EXCEPT !.company = MissingCompany]

\* f"{job.title} {job.description}"[:200]
DetailQuery(job) == Take(job.title \o <<Space>> \o job.description, 200)

\* the match_scores dictionary handed to generate_match_explanation
MatchScores(match) ==
    [overall |-> match.overall_score,
     skills |-> match.skills_match_score,
     experience |-> match.experience_match_score,
     salary |-> match.salary_match_score]

\* what job_detail renders
DetailPage(c, analysis, overall, explanation, similar) ==
    [page |-> "job_detail", cache |-> c, ai_analysis |-> analysis,
     overall |-> overall, explanation |-> explanation, similar |-> similar]

\* the end of the try block: find_similar_jobs, then the page
DetailWithSimilar(st, c, jobId, analysis, overall, explanation, faults) ==
    With(FindSimilarJobs(st, c, jobId, DetailSimilarLimit, "ok", faults), LAMBDA s :
        DetailPage(s.cache, analysis, overall, explanation, s.val))

\* job_detail; f says what the collaborators do during the request
JobDetailPage(st, c, cl, jobId, profile, f) ==
    LET job == GetJob(st, jobId, f.db)
    IN IF job = NoJob
       THEN [page |-> "redirect", cache |-> c, ai_analysis |-> PyNone,
             overall |-> NoneNum, explanation |-> PyNone, similar |-> <<>>]
       ELSE
       With(AnalyzeJobRequirements(cl, JobDict(job), f.analysis), LAMBDA a :
       IF a.out = "raised"
       THEN DetailPage(c, PyNone, NoneNum, PyNone, <<>>)
       ELSE IF ProfileAbsent(profile)
       THEN DetailWithSimilar(st, c, jobId, a.val, NoneNum, PyNone, f.similar)
       ELSE
       With(EmbedText(c, DetailQuery(job), TRUE, f.query), LAMBDA q :
       With(CalculateJobMatch(q.cache, job, q.val, profile, f.job), LAMBDA m :
       IF m.val = NoMatch
       THEN DetailWithSimilar(st, m.cache, jobId, a.val, NoneNum, PyNone, f.similar)
       ELSE
       With(GenerateMatchExplanation(cl, JobDict(job), profile, MatchScores(m.val),
                                     f.explain), LAMBDA e :
       IF e.out = "raised" \/ a.val.type # "dict"
       THEN DetailPage(m.cache, a.val, m.val.overall_score, PyNone, <<>>)
       ELSE DetailWithSimilar(st, m.cache, jobId, a.val, m.val.overall_score,
                              e.val, f.similar)))))

\* the job table behind the page: a row with responsibilities, a row whose
\* list columns are NULL, and a row with an empty list
DetailPool ==
    <<[JobPy EXCEPT !.responsibilities = << <<"py">> >>],
      JobUx,
      [JobMl EXCEPT !.responsibilities = <<>>]>>

DetailStores ==
    {Pick(DetailPool, idx) :
        idx \in {x \in SUBSET (1..Len(DetailPool)) : Cardinality(x) <= MaxJobs}}

\* what can go wrong during one request: get_job fails, model.encode fails
\* on the query, on the job or on the reference job of the similar-jobs
\* search; with an LLM configured, what its two requests answer
DetailFaults(cl) ==
    [db : BOOLEAN, query : {"ok", "model"}, job : {"ok", "model"},
     similar : {{}, {1}},
     analysis : IF cl THEN {LLMError, LLMText(AnalysisObject), LLMText(<<"[", "]">>)}
                ELSE {LLMError},
     explain : IF cl THEN {LLMError, LLMText(<<"Great", Space, "match">>)}
               ELSE {LLMError}]

JobDetail ==
    /\ call = Idle
    /\ \E jobId \in JobIds, profile \in ProfilePool, f \in DetailFaults(client) :
        \E r \in {JobDetailPage(store, cache, client, jobId, profile, f)} :
            /\ cache' = r.cache
            /\ call' = [op |-> "job_detail", job_id |-> jobId, profile |-> profile,
                        faults |-> f, page |-> r.page, ai_analysis |-> r.ai_analysis,
                        overall |-> r.overall, explanation |-> r.explanation,
                        similar |-> r.similar]
    /\ UNCHANGED <<store, client, history>>

InitApp ==
    /\ store \in DetailStores
    /\ client \in BOOLEAN
    /\ cache = <<>>
    /\ call = Idle
    /\ history = {}

NextApp == JobDetail \/ Respond

SpecApp == InitApp /\ [][NextApp]_vars

(***************************************************************************)
(* Properties of search_jobs_semantic and find_similar_jobs (SpecSearch).  *)
(***************************************************************************)
ResultOps == {"search", "find_similar"}

\* every match the completed call scored, whatever its limit
ScoredCandidates ==
    IF call.op = "search"
    THEN SearchJobsSemantic(store, call.before, call.query, call.profile, call.filters,
                            Len(store), call.db_fails, call.faults).val
    ELSE FindSimilarJobs(store, call.before, call.job_id, Len(store),
                         call.db_fault, call.faults).val

NonIncreasing(matches) ==
    \A i \in 1..(Len(matches) - 1) :
        Ge(matches[i].overall_score, matches[i + 1].overall_score)

\* no candidate left out scores above a match that was returned
TopScoring(matches, candidates) ==
    /\ Len(matches) = IF call.limit < Len(candidates) THEN call.limit ELSE Len(candidates)
    /\ \A i \in 1..Len(candidates) :
          \/ \E j \in 1..Len(matches) : matches[j] = candidates[i]
          \/ \A j \in 1..Len(matches) :
                Ge(matches[j].overall_score, candidates[i].overall_score)

\* C1: the list search or find_similar_jobs returns has at most `limit`
\* matches, is ordered by overall_score non-increasing, and holds the
\* highest-scoring of the candidates that were scored.
C1_RankedTopLimit ==
    call.op \in ResultOps =>
        /\ Len(call.val) <= call.limit
        /\ NonIncreasing(call.val)
        /\ TopScoring(call.val, ScoredCandidates)

\* C2: search and find_similar_jobs never raise: whatever fails inside, the
\* call returns a list, and find_similar_jobs of an unknown job id returns [].
C2_NeverRaises ==
    call.op \in ResultOps =>
        /\ call.out = "returned"
        /\ \A i \in 1..Len(call.val) : call.val[i] # NoMatch
        /\ (call.op = "find_similar"
            /\ (\A i \in 1..Len(store) : store[i].id # call.job_id))
           => call.val = <<>>

\* a find_similar_jobs whose try block raised (the reference row cannot be
\* turned into text) and that returned [] all the same
C2_Witness ==
    /\ call.op = "find_similar"
    /\ FindSimilarBody(store, call.before, call.job_id, call.limit,
                       call.db_fault, call.faults).out = "raised"
    /\ call.out = "returned"
    /\ call.val = <<>>

\* C3: find_similar_jobs never returns the reference job, nor a match whose
\* semantic_score is 0.30 or less.
C3_NoReferenceAboveThreshold ==
    call.op = "find_similar" =>
        \A i \in 1..Len(call.val) :
            /\ call.val[i].job_id # call.job_id
            /\ call.val[i].semantic_score > 300

\* a find_similar_jobs over a table with the reference job, a job similar
\* enough and a dissimilar job, which returned only the similar one
C3_Witness ==
    /\ call.op = "find_similar"
    /\ store = <<JobUx, JobMl, JobPy>>
    /\ call.job_id = JobPy.id
    /\ call.limit = MaxLimit
    /\ Len(call.val) = 1
    /\ call.val[1].job_id = JobMl.id

(***************************************************************************)
(* Properties of the embedding service (Spec).                             *)
(***************************************************************************)
\* C4 as stated: any two embed_text calls on the same trimmed text in one
\* execution returned identical vectors, model failures included.
C4_SameVectorEveryCall ==
    \A h1 \in history, h2 \in history : h1[1] = h2[1] => h1[2] = h2[2]

\* C4, amended: any two embed_text calls on the same trimmed text on which
\* the model did not fail returned identical vectors, namely the model's
\* embedding of that text (the zero vector for a blank text), computed or
\* cached; a call on which the model failed returned the zero vector.
C4_SameVectorWhenModelAnswers ==
    /\ \A h1 \in history, h2 \in history :
          (h1[1] = h2[1] /\ ~h1[3] /\ ~h2[3]) => h1[2] = h2[2]
    /\ \A h \in history :
          /\ (~h[3] /\ h[1] # <<>> /\ h[2] # NoVec) => h[2] = ModelEncode(h[1])
          /\ (~h[3] /\ h[1] = <<>>) => h[2] = Zeros
          /\ h[3] => h[2] = Zeros

\* one text was embedded both by a call on which the model failed and by a
\* call served from the cache that an earlier successful call had filled
C4_Witness ==
    /\ call.op = "embed_text"
    /\ call.use_cache
    /\ call.fault = "model"
    /\ ~call.failed
    /\ <<KeyOf(call.text), Zeros, TRUE>> \in history
    /\ <<KeyOf(call.text), call.val, FALSE>> \in history
    /\ call.val # Zeros

\* the positions of the completed embed_texts call that the cache lookup left
\* unresolved
Unresolved ==
    IndicesToEmbed(call.texts,
                   EmbedTextsLookup(call.before, call.texts, call.use_cache, call.load_fail))

\* C5: when the model fails, embed_text returns the zero vector and embed_texts
\* puts the zero vector at every position not yet resolved; neither raises.
C5_ZeroVectorOnModelFailure ==
    /\ (call.op = "embed_text" /\ call.failed) =>
          (call.out = "returned" /\ call.val = Zeros)
    /\ (call.op = "embed_texts" /\ call.model_fails) =>
          /\ call.out = "returned"
          /\ Len(call.val) = Len(call.texts)
          /\ \A i \in Unresolved : call.val[i] = Zeros

\* an embed_texts call on which the model failed, with one position served
\* from the cache and one left to the model
C5_Witness ==
    /\ call.op = "embed_texts"
    /\ call.model_fails
    /\ Len(call.texts) = MaxBatch
    /\ Unresolved # {}
    /\ \E i \in 1..Len(call.texts) :
          i \notin Unresolved /\ call.val[i] # Zeros
    /\ \E i \in Unresolved : call.val[i] = Zeros

(***************************************************************************)
(* Properties of the scoring functions (SpecScore).                        *)
(***************************************************************************)
\* C6: calculate_similarity returns a value in [0, 1] for every pair of
\* vectors, and 0.0 when either is the zero vector.
C6_SimilarityInUnitRange ==
    call.op = "similarity" =>
        /\ InUnitRange(call.val)
        /\ (call.embedding1 = Zeros \/ call.embedding2 = Zeros) => call.val = 0

\* C7: for sub-scores in [0, 1] the overall score is
\* round(0.35*semantic + 0.25*skills + 0.20*experience + 0.15*salary
\* + 0.05*location, 3) and lies in [0, 1].
C7_WeightedSumRounded ==
    call.op = "overall_score" =>
        /\ call.val = Round3(350 * call.semantic + 250 * call.skills
                             + 200 * call.experience + 150 * call.salary
                             + 50 * call.location)
        /\ 0 <= call.val
        /\ call.val <= Unit

\* an overall score whose weighted sum is not a whole number of thousandths
\* and whose skills and experience sub-scores differ
C7_Witness ==
    /\ call.op = "overall_score"
    /\ call.skills # call.experience
    /\ (350 * call.semantic + 250 * call.skills + 200 * call.experience
        + 150 * call.salary + 50 * call.location) % Unit # 0
    /\ call.val > 0
    /\ call.val < Unit

SubScoreOps == {"skills_match", "experience_match", "salary_match", "location_match"}

\* C8: each of the skills, experience, salary and location sub-scores is a
\* number in [0, 1], for every job and every profile or None.
C8_SubScoresInUnitRange ==
    call.op \in SubScoreOps => InUnitRange(call.val)

\* C9: with no profile (None), each of the four sub-scores is exactly 0.5.
C9_NeutralWithoutProfile ==
    (call.op \in SubScoreOps /\ call.profile = NoProfile) => call.val = 500

\* the salary sub-score of a job with a salary range, asked without a profile
C9_Witness ==
    /\ call.op = "salary_match"
    /\ call.profile = NoProfile
    /\ call.job.salary_min = 10
    /\ call.job.salary_max = 15
    /\ call.val = 500

(***************************************************************************)
(* Properties of the LLM analyzer (SpecLLM).                               *)
(***************************************************************************)
LLMOps == {"analyze_job", "explain_match", "find_skill_gaps", "build_application_strategy"}

\* what scripts/test_phase3.py asks of each result: a truthy value that has
\* the operation's first key, or a non-empty string
WellFormed(op, v) ==
    CASE op = "analyze_job" ->
            PyTruthy(v) /\ v.type = "dict" /\ "required_skills" \in DOMAIN v.items
      [] op = "explain_match" -> v.type = "str" /\ PyTruthy(v)
      [] op = "find_skill_gaps" ->
            PyTruthy(v) /\ v.type = "dict" /\ "missing_skills" \in DOMAIN v.items
      [] op = "build_application_strategy" ->
            PyTruthy(v) /\ v.type = "dict" /\ "key_selling_points" \in DOMAIN v.items

\* C10: analyze_job, explain_match, find_skill_gaps and
\* build_application_strategy never raise and return a well-formed, non-empty
\* result, for every outcome of the LLM and every job record.
C10_WellFormedNeverRaises ==
    call.op \in LLMOps =>
        /\ call.out = "returned"
        /\ WellFormed(call.op, call.val)

\* the completed call is an explain_match without an LLM client, for a job
\* whose title is a string or absent and scores whose overall_score, when
\* given, is a float (the title column is NOT NULL; None is not a score)
FallbackExplained ==
    /\ call.op = "explain_match"
    /\ ~client
    /\ call.job.title # NoneStr
    /\ ("overall_score" \in DOMAIN call.scores => call.scores.overall_score # NoneNum)

\* the title the explanation has to name
NamedTitle == IF call.job.title = Missing THEN <<"position">> ELSE call.job.title

\* the tier of the overall_score entry of match_scores
ScoreTier ==
    IF "overall_score" \notin DOMAIN call.scores THEN "stretch"
    ELSE IF IsNaN(call.scores.overall_score) THEN "stretch"
    ELSE IF call.scores.overall_score >= 700 THEN "strong"
    ELSE IF call.scores.overall_score >= 500 THEN "good"
    ELSE "stretch"

\* C11: with no LLM configured, explain_match returns a non-empty string that
\* names the job title ('position' when the title is absent) and whose wording
\* is the strong-match text iff overall_score >= 0.7, the good-opportunity
\* text iff 0.5 <= overall_score < 0.7, and the stretch text otherwise.
C11_FallbackExplanationByTier ==
    FallbackExplained =>
        /\ call.out = "returned"
        /\ call.val.type = "str"
        /\ Len(call.val.text) > 0
        /\ IsSubstring(NamedTitle, call.val.text)
        /\ Head(call.val.text) = ScoreTier

\* a fallback explanation for a job without a title whose overall_score is
\* just below 0.7: the good-opportunity text, naming 'position'
C11_Witness ==
    /\ FallbackExplained
    /\ call.job.title = Missing
    /\ call.scores = [overall_score |-> 699]
    /\ call.val = PyStr(<<"good", Space, "position">>)

\* C12: a search given a SearchFilters object in which no field was set
\* considers the same candidates as a search given filters=None, every job of
\* the table: the two searches return the same matches.
C12_UnsetFiltersLikeNone ==
    (call.op = "search" /\ call.filters = DefaultFilters) =>
        call.val = SearchJobsSemantic(store, call.before, call.query, call.profile,
                                      NoFilters, call.limit, call.db_fails,
                                      call.faults).val

\* the stored job a returned match is about
JobOf(match) == store[CHOOSE i \in 1..Len(store) : store[i].id = match.job_id]

\* the skills a job lists, required or preferred, in lower case
ListedSkills(job) ==
    {LowerStr(job.skills_required[i]) :
        i \in IF job.skills_required = NoneList THEN {} ELSE 1..Len(job.skills_required)}
    \cup {LowerStr(job.skills_preferred[i]) :
        i \in IF job.skills_preferred = NoneList THEN {} ELSE 1..Len(job.skills_preferred)}

\* job satisfies every filter that is set in f
SatisfiesFilters(job, f) ==
    /\ f.min_salary # NoneNum => (job.salary_max # NoneNum /\ job.salary_max >= f.min_salary)
    /\ f.max_salary # NoneNum => (job.salary_min # NoneNum /\ job.salary_min <= f.max_salary)
    /\ f.job_types # {} => job.job_type \in f.job_types
    /\ f.remote_types # {} => job.remote_type \in f.remote_types
    /\ f.experience_levels # {} => job.experience_level \in f.experience_levels
    /\ f.locations # {} =>
          (job.location # NoneStr
           /\ \E loc \in f.locations : IsSubstring(LowerStr(loc), LowerStr(job.location)))
    /\ f.companies # {} => job.company \in f.companies
    /\ f.max_age_days # NoneNum => (job.age # NoneNum /\ job.age <= f.max_age_days)
    /\ \A s \in f.required_skills : LowerStr(s) \in ListedSkills(job)
    /\ \A s \in f.excluded_skills : LowerStr(s) \notin ListedSkills(job)

\* C13: every job a search returns satisfies every filter set in the
\* SearchFilters passed in, required_skills and excluded_skills included.
C13_ResultsSatisfyFilters ==
    (call.op = "search" /\ call.filters # NoFilters) =>
        \A i \in 1..Len(call.val) : SatisfiesFilters(JobOf(call.val[i]), call.filters)

\* C14: search and find_similar_jobs leave the job table and the caller's
\* profile as they were: no step of the search engine changes the stored
\* jobs, and the profile a search was given has every field unchanged after it.
C14_StoreAndProfileUnchanged ==
    [][/\ store' = store
       /\ call'.op = "search" => call'.profile_after = call'.profile]_vars

\* a search with a profile that queried and scored every job of a full table
C14_Witness ==
    /\ call.op = "search"
    /\ call.profile = BaseProfile
    /\ call.filters = NoFilters
    /\ Len(store) = MaxJobs
    /\ Len(ScoredCandidates) >= 2
    /\ call.profile_after = BaseProfile

\* position i of the completed embed_texts call needs no model call: its
\* text is empty, or its embedding was in the cache and could be read
ResolvedWithoutModel(i) ==
    \/ IsBlank(call.texts[i])
    \/ /\ KeyOf(call.texts[i]) \in DOMAIN call.before
       /\ i \notin call.load_fail

\* the positions of the completed embed_texts call left to the model
LeftToModel == {i \in 1..Len(call.texts) : ~ResolvedWithoutModel(i)}

\* the embedding of a text: the zero vector for an empty text, else the
\* model's vector for the trimmed text
EmbeddingOf(text) == IF IsBlank(text) THEN Zeros ELSE ModelEncode(Strip(text))

\* C15: embed_texts returns one vector per input text, in input order; with
\* the cache in use, texts that are empty or cached go without a model call
\* and the others are sent to the model in one batch call; when the model
\* answers, result[i] is the embedding of texts[i] and each newly computed
\* vector is in the cache under its own text's key.
C15_BatchInOrderOneCall ==
    call.op = "embed_texts" =>
        /\ call.out = "returned"
        /\ Len(call.val) = Len(call.texts)
        /\ ~call.model_fails =>
              \A i \in 1..Len(call.texts) : call.val[i] = EmbeddingOf(call.texts[i])
        /\ call.use_cache =>
              /\ Len(call.sent) = IF LeftToModel = {} THEN 0 ELSE 1
              /\ LeftToModel # {} =>
                    /\ Len(call.sent[1]) = Cardinality(LeftToModel)
                    /\ \A i \in LeftToModel :
                          call.sent[1][Cardinality({j \in LeftToModel : j <= i})]
                              = Strip(call.texts[i])
        /\ (call.use_cache /\ ~call.model_fails) =>
              \A i \in LeftToModel :
                  (\A j \in call.save_fail : KeyOf(call.texts[j]) # KeyOf(call.texts[i]))
                      => /\ KeyOf(call.texts[i]) \in DOMAIN cache
                         /\ cache[KeyOf(call.texts[i])] = call.val[i]

\* a batch with a cached text first and a new text second: one model call for
\* the new text alone, whose vector is then in the cache
C15_Witness ==
    /\ call.op = "embed_texts"
    /\ call.use_cache
    /\ ~call.model_fails
    /\ call.load_fail = {}
    /\ call.save_fail = {}
    /\ Len(call.texts) = MaxBatch
    /\ LeftToModel = {MaxBatch}
    /\ ~IsBlank(call.texts[1])
    /\ call.sent = <<<<Strip(call.texts[MaxBatch])>>>>
    /\ call.val[1] # call.val[MaxBatch]
    /\ cache[KeyOf(call.texts[MaxBatch])] = call.val[MaxBatch]

\* the score find_most_similar owes the candidate at index i (from 0)
ScoreOwed(i) ==
    IF call.candidates[i + 1] = NoVec THEN 0
    ELSE CosineSimilarity(call.query, call.candidates[i + 1])

\* pair p ranks before pair q: a higher score, or the same score and a
\* lower original index
RanksBefore(p, q) == p[2] > q[2] \/ (p[2] = q[2] /\ p[1] < q[1])

\* C16: find_most_similar returns the first top_k of the (index, score) pairs
\* of all candidates, a None candidate scoring 0.0 with its index kept,
\* ordered by score descending and, for equal scores, by ascending index.
C16_TopKStableDescending ==
    call.op = "most_similar" =>
        LET n == Len(call.candidates)
            picked == {call.val[j][1] : j \in 1..Len(call.val)}
        IN /\ Len(call.val) = IF call.top_k < n THEN call.top_k ELSE n
           /\ \A j \in 1..Len(call.val) :
                 /\ call.val[j][1] \in 0..(n - 1)
                 /\ call.val[j][2] = ScoreOwed(call.val[j][1])
           /\ \A j \in 1..Len(call.val), k \in 1..Len(call.val) :
                 j < k => RanksBefore(call.val[j], call.val[k])
           /\ \A i \in (0..(n - 1)) \ picked :
                 \A j \in 1..Len(call.val) : RanksBefore(call.val[j], <<i, ScoreOwed(i)>>)

\* a call whose top_k cuts the list, with a None candidate returned at score
\* 0.0 after an earlier candidate of the same score and before a later one
\* that is left out
C16_Witness ==
    /\ call.op = "most_similar"
    /\ Len(call.candidates) = MaxCandidates
    /\ call.top_k = MaxCandidates - 1
    /\ call.candidates[2] = NoVec
    /\ call.val = <<<<0, 0>>, <<1, 0>>>>
    /\ ScoreOwed(MaxCandidates - 1) < 0

\* the candidate set of the completed search: what the filter step returned
Candidates == GetFilteredJobs(store, call.filters, call.db_fails)

\* how many embed_text calls of the completed operation were made for `who`
EmbedCount(who) ==
    Cardinality({i \in 1..Len(call.embedded) : call.embedded[i].who = who})

\* C17: in a search, filtering comes before embedding: only candidates that
\* passed the filters are embedded, the query is embedded exactly once and the
\* profile at most once however many candidates there are, and with no
\* candidate the search returns [] and embeds nothing.
C17_FilterBeforeEmbedding ==
    call.op = "search" =>
        /\ \A i \in 1..Len(call.embedded) :
              call.embedded[i].who = "job" =>
                  \E k \in 1..Len(Candidates) : Candidates[k].id = call.embedded[i].id
        /\ Len(Candidates) > 0 =>
              /\ EmbedCount("query") = 1
              /\ call.embedded[1].who = "query"
              /\ EmbedCount("profile") <= 1
              /\ call.profile = NoProfile => EmbedCount("profile") = 0
        /\ Len(Candidates) = 0 => (call.val = <<>> /\ call.embedded = <<>>)

\* a search with a profile whose filters leave two of three stored jobs:
\* the query, the profile and the two candidates were embedded, nothing else
C17_Witness ==
    /\ call.op = "search"
    /\ call.filters = DefaultFilters
    /\ call.profile = BaseProfile
    /\ Len(store) = MaxJobs
    /\ Len(Candidates) = MaxJobs - 1
    /\ EmbedCount("query") = 1
    /\ EmbedCount("profile") = 1
    /\ EmbedCount("job") = MaxJobs - 1

\* computing the match of this candidate fails: a list column of the row
\* holds an item that is not a string, which the job text cannot be built of
MatchFails(job) ==
    \E f \in {"requirements", "responsibilities", "skills_required", "skills_preferred"} :
        job[f] # NoneList /\ Len(job[f]) > 0 /\ \E i \in 1..Len(job[f]) : job[f][i] = NonStr

\* C18: a candidate whose match fails is left out of the result and every
\* other candidate is still scored and eligible: the search goes on.
C18_CandidateFailureIsolated ==
    (call.op = "search" /\ call.query # NonStr) =>
        \A scored \in {ScoredCandidates}, jobs \in {Candidates} :
            /\ call.out = "returned"
            /\ \A k \in 1..Len(jobs) :
                  (\E j \in 1..Len(scored) : scored[j].job_id = jobs[k].id)
                      <=> ~MatchFails(jobs[k])
            /\ call.val = Take(scored, call.limit)

\* a search over a table whose second row cannot be matched: the rows before
\* and after it were both scored and returned
C18_Witness ==
    /\ call.op = "search"
    /\ call.filters = NoFilters
    /\ Len(store) = MaxJobs
    /\ MatchFails(store[2])
    /\ ~MatchFails(store[1])
    /\ ~MatchFails(store[MaxJobs])
    /\ call.limit = MaxLimit
    /\ Len(call.val) = 2
    /\ {call.val[1].job_id, call.val[2].job_id} = {store[1].id, store[MaxJobs].id}

\* the completed call is an experience match of a job whose level has a band
\* for a profile that states its years of experience, zero or more
BandKnown ==
    /\ call.op = "experience_match"
    /\ call.profile # NoProfile
    /\ call.profile.experience_years # NoneNum
    /\ call.profile.experience_years >= 0
    /\ LowerOrEmpty(call.job.experience_level) \in Levels

BandMin == LevelToYears(LowerOrEmpty(call.job.experience_level))[1]
BandMax == LevelToYears(LowerOrEmpty(call.job.experience_level))[2]

\* C19: when the user's experience_years, zero or more, lie inside the
\* inclusive band of the job's experience level, the experience score is 1.0.
C19_InBandScoresOne ==
    (BandKnown /\ BandMin <= call.profile.experience_years
               /\ call.profile.experience_years <= BandMax)
        => call.val = Unit

\* C20: below the band minimum by gap years the experience score is
\* max(0, 1 - gap/5); above the band maximum by gap years it is
\* max(0.6, 1 - gap/10); a job of unknown experience level scores 0.5.
C20_OutOfBandPenalty ==
    /\ (BandKnown /\ call.profile.experience_years < BandMin) =>
          LET gap == BandMin - call.profile.experience_years
          IN call.val = IF 1000 - gap * 200 > 0 THEN 1000 - gap * 200 ELSE 0
    /\ (BandKnown /\ call.profile.experience_years > BandMax) =>
          LET gap == call.profile.experience_years - BandMax
          IN call.val = IF 1000 - gap * 100 > 600 THEN 1000 - gap * 100 ELSE 600
    /\ (call.op = "experience_match"
        /\ LowerOrEmpty(call.job.experience_level) \notin Levels) => call.val = 500

\* the salary intervals as the specification reads them: an absent lower
\* bound is 0, an absent upper bound is +infinity
LowerBound(x) == IF x = NoneNum THEN 0 ELSE x
UpperBound(x) == IF x = NoneNum THEN Inf ELSE x
IntervalLength(lo, hi) == IF hi = Inf THEN Inf ELSE hi - lo

\* the completed call is a salary match in which the job and the profile
\* each state a salary interval (some bound present, present bounds
\* positive, lower bound not above the upper one) and the intervals overlap
SalaryIntervalsOverlap ==
    /\ call.op = "salary_match"
    /\ call.profile # NoProfile
    /\ \A x \in {call.job.salary_min, call.job.salary_max,
                 call.profile.desired_salary_min, call.profile.desired_salary_max} :
          x = NoneNum \/ x > 0
    /\ call.job.salary_min # NoneNum \/ call.job.salary_max # NoneNum
    /\ call.profile.desired_salary_min # NoneNum \/ call.profile.desired_salary_max # NoneNum
    /\ LowerBound(call.job.salary_min) <= UpperBound(call.job.salary_max)
    /\ LowerBound(call.profile.desired_salary_min)
          <= UpperBound(call.profile.desired_salary_max)
    /\ LowerBound(call.job.salary_min) <= UpperBound(call.profile.desired_salary_max)
    /\ LowerBound(call.profile.desired_salary_min) <= UpperBound(call.job.salary_max)

\* v is the float num / den in thousandths, truncated
IsQuotient(v, num, den) == v * den <= num * Unit /\ num * Unit < (v + 1) * den

\* C21: when the job's and the user's salary intervals overlap, the salary
\* score is overlap_length / average(job_range_length, user_range_length)
\* capped at 1.0, a number; two coinciding point ranges score 1.0.
C21_OverlapRatioCapped ==
    SalaryIntervalsOverlap =>
        LET jobLo == LowerBound(call.job.salary_min)
            jobHi == UpperBound(call.job.salary_max)
            userLo == LowerBound(call.profile.desired_salary_min)
            userHi == UpperBound(call.profile.desired_salary_max)
            start == IF jobLo > userLo THEN jobLo ELSE userLo
            end == IF jobHi < userHi THEN jobHi ELSE userHi
            overlap == IntervalLength(start, end)
            jobLen == IntervalLength(jobLo, jobHi)
            userLen == IntervalLength(userLo, userHi)
        IN /\ call.val # NaN
           /\ (jobLen = 0 /\ userLen = 0) => call.val = Unit
           /\ (jobLen + userLen > 0 /\ jobLen # Inf /\ userLen # Inf) =>
                 IF 2 * overlap >= jobLen + userLen THEN call.val = Unit
                 ELSE IsQuotient(call.val, 2 * overlap, jobLen + userLen)
           /\ (overlap # Inf /\ (jobLen = Inf \/ userLen = Inf)) => call.val = 0

\* the skills a list field names, compared without regard to case
FoldedSkills(l) == IF l = NoneList THEN {} ELSE {LowerStr(l[i]) : i \in 1..Len(l)}

\* the completed call is a skills match on lists of strings
SkillsCompared ==
    /\ call.op = "skills_match"
    /\ \A l \in {call.job.skills_required, call.job.skills_preferred} :
          l = NoneList \/ IsStrList(l)
    /\ call.profile # NoProfile => (call.profile.skills = NoneList
                                    \/ IsStrList(call.profile.skills))

\* C22: when the profile has skills and the job lists skills, the skills
\* score is |user_skills /\ job_skills| / |job_skills|, job_skills being the
\* union of the required and the preferred skills and the comparison
\* case-insensitive; when the job lists no skills or the profile has none
\* the score is 0.5.
C22_SkillsOverlapRatio ==
    SkillsCompared =>
        LET jobSkills == FoldedSkills(call.job.skills_required)
                            \cup FoldedSkills(call.job.skills_preferred)
            userSkills == IF call.profile = NoProfile THEN {}
                          ELSE FoldedSkills(call.profile.skills)
        IN IF userSkills = {} \/ jobSkills = {}
           THEN call.val = Half
           ELSE IsQuotient(call.val, Cardinality(userSkills \cap jobSkills),
                           Cardinality(jobSkills))

\* a profile skill spelt in another case than the job's meets a job whose
\* required and preferred skills differ: one skill of three is shared
C22_Witness ==
    /\ call.op = "skills_match"
    /\ call.profile # NoProfile
    /\ call.profile.skills = << <<"Py">> >>
    /\ call.job.skills_required = << <<"py">>, <<"ml">> >>
    /\ call.job.skills_preferred = << <<"ux">> >>
    /\ call.val = 333

\* the completed call is a location match whose profile, if any, lists its
\* preferred locations as strings
LocationsCompared ==
    /\ call.op = "location_match"
    /\ call.profile # NoProfile =>
          (call.profile.preferred_locations = NoneList
           \/ IsStrList(call.profile.preferred_locations))

\* the profile's preferred locations, none for a missing profile or field
PreferredLocations ==
    IF call.profile = NoProfile THEN <<>>
    ELSE IF call.profile.preferred_locations = NoneList THEN <<>>
    ELSE call.profile.preferred_locations

\* the job's location and remote type without regard to case, "" if missing
LocationOfJob == IF call.job.location = NoneStr THEN <<>> ELSE LowerStr(call.job.location)
RemoteOfJob == IF call.job.remote_type = None THEN "" ELSE Lower(call.job.remote_type)

\* some preferred location is part of the job's location or contains it
NamesJobLocation ==
    \E i \in 1..Len(PreferredLocations) :
        \/ IsSubstring(LowerStr(PreferredLocations[i]), LocationOfJob)
        \/ IsSubstring(LocationOfJob, LowerStr(PreferredLocations[i]))

\* C23: the location score is the ordered decision: 0.5 when the profile has
\* no preferred locations; otherwise 1.0 when the user lists 'remote' and the
\* job is remote or hybrid; otherwise 1.0 when some preferred location is a
\* case-insensitive substring or superstring of the job location; otherwise
\* 0.7 when the job is hybrid; otherwise 0.2.
C23_LocationDecisionOrder ==
    LocationsCompared =>
        call.val =
            IF Len(PreferredLocations) = 0 THEN Half
            ELSE IF (\E i \in 1..Len(PreferredLocations) :
                        LowerStr(PreferredLocations[i]) = <<"remote">>)
                    /\ RemoteOfJob \in {"remote", "hybrid"} THEN Unit
            ELSE IF NamesJobLocation THEN Unit
            ELSE IF RemoteOfJob = "hybrid" THEN 700
            ELSE 200

\* a hybrid job in a place the profile names in another case scores 1.0 by
\* the location-name rule, which comes before the hybrid rule; and a
\* preferred location that contains the job's location matches as well
C23_Witness ==
    /\ call.op = "location_match"
    /\ call.profile # NoProfile
    /\ call.val = Unit
    /\ \/ /\ call.profile.preferred_locations = << <<"ux">>, <<"ml">> >>
          /\ call.job.location = <<"Ux", Space, "Ny">>
          /\ call.job.remote_type = "Hybrid"
       \/ /\ call.profile.preferred_locations = << <<"Ux", Space, "Ny">> >>
          /\ call.job.location = <<"Ny">>
          /\ call.job.remote_type = "on_site"

\* the rule a reason comes from, numbered in the order of the rules:
\* semantic, skills, experience, salary, location, company
RuleOf(reason) ==
    CASE reason[1] \in {"Excellent match with your search query and interests",
                        "Good alignment with your search criteria"} -> 1
      [] reason[1] = "Strong skills match: " -> 2
      [] reason[1] \in {"Perfect experience level match",
                        "Good experience level alignment", "Consider this "} -> 3
      [] reason[1] \in {"Salary range aligns with your expectations",
                        "Salary may be below expectations"} -> 4
      [] reason[1] \in {"Fully remote position", "Location matches your preferences",
                        "Hybrid work arrangement available"} -> 5
      [] reason[1] = "Opportunity at " -> 6

\* the completed call is _generate_match_reasons and it returned its list
ReasonsReturned == call.op = "match_reasons" /\ call.out = "returned"

\* C24: for every job, profile and score tuple, match_reasons has at most 5
\* entries, no string twice, and its reasons in the order of the rules
\* semantic, skills, experience, salary, location, company, whatever the
\* magnitude of the scores.
C24_ReasonsBoundedInRuleOrder ==
    ReasonsReturned =>
        /\ Len(call.val) <= 5
        /\ \A i, j \in 1..Len(call.val) :
              i < j => /\ call.val[i] # call.val[j]
                       /\ RuleOf(call.val[i]) <= RuleOf(call.val[j])

\* all six rules gave a reason and five are returned; the semantic reason
\* comes first although the semantic score is the lowest of the five
C24_Witness ==
    /\ ReasonsReturned
    /\ Len(call.val) = 5
    /\ Len(AllReasons(call.job, call.profile, call.semantic, call.skills,
                      call.experience, call.salary, call.location, call.order)) = 6
    /\ RuleOf(call.val[1]) = 1
    /\ \A s \in {call.skills, call.experience, call.salary, call.location} :
          call.semantic < s

\* C25: for every job whose company is known, the match_reasons contain the
\* company-mention reason 'Opportunity at <company>', whatever the five
\* scores are.
C25_CompanyReasonListed ==
    (ReasonsReturned /\ call.job.company # "") =>
        \E i \in 1..Len(call.val) : call.val[i] = <<"Opportunity at ", call.job.company>>

(***************************************************************************)
(* Properties of concurrent embed_text requests (SpecConcurrent).          *)
(***************************************************************************)
\* request p has its result and the model did not fail in it
Answered(p) == call[p].pc = "done" /\ ~call[p].failed

\* no request is between its first and its last statement
Quiescent == \A p \in Requests : call[p].pc \in {"idle", "done"}

\* C26: with requests embedding the same text concurrently and no lock
\* around the cache, every call returns the model's embedding of its text,
\* whether it computed it or read it from a cache file another request was
\* writing; and once the requests are through, the cache holds exactly that
\* vector under the text's key.
C26_ConcurrentEmbedsAgree ==
    /\ \A p \in Requests :
          Answered(p) => call[p].val = ModelEncode(call[p].text)
    /\ Quiescent =>
          /\ \A k \in DOMAIN cache : cache[k] = ModelEncode(k)
          /\ \A p \in Requests :
                (Answered(p) /\ call[p].text # <<>>) =>
                    GetCacheKey(call[p].text) \in DOMAIN cache

\* two requests for the same text have both run the model and written the
\* file, and one of them read the file while the other was writing it
C26_Witness ==
    \E p, q \in Requests :
        /\ p # q
        /\ Answered(p) /\ Answered(q)
        /\ call[p].text = <<"py">> /\ call[q].text = <<"py">>
        /\ ~call[p].hit /\ ~call[q].hit
        /\ call[p].torn
        /\ cache[GetCacheKey(<<"py">>)] = ModelEncode(<<"py">>)

\* C27: after any sequence of embed_text, embed_texts and clear_cache calls,
\* with model failures and cache-file failures in between, every vector in
\* the cache under the key of a text is the model's embedding of that text;
\* the zero vector returned on a model failure is never written.
C27_CacheHoldsModelEmbeddings ==
    \A k \in DOMAIN cache : cache[k] = ModelEncode(k) /\ cache[k] # Zeros

\* the model has just failed on a text that was to be cached and the zero
\* vector was returned, while the cache holds other texts' vectors
C27_Witness ==
    /\ call.op = "embed_text"
    /\ call.use_cache
    /\ call.failed
    /\ call.val = Zeros
    /\ KeyOf(call.text) \notin DOMAIN cache
    /\ DOMAIN cache # {}

\* the completed call is a search in which no collaborator failed
CleanSearch == call.op = "search" /\ ~call.db_fails /\ call.faults = {}

\* the matches of the same search made with another profile, every
\* candidate listed
SearchAs(profile) ==
    SearchJobsSemantic(store, call.before, call.query, profile, call.filters,
                       MaxJobs, FALSE, {}).val

\* C28: the semantic_score of a job in a search depends only on the query and
\* the job: the same search over the same store with another user profile
\* gives every job the same semantic_score.
C28_SemanticScoreIgnoresProfile ==
    CleanSearch =>
        \A profile \in ProfilePool \ {call.profile} :
            \A other \in {SearchAs(profile)} :
                \A i \in 1..Len(call.val), j \in 1..Len(other) :
                    call.val[i].job_id = other[j].job_id =>
                        call.val[i].semantic_score = other[j].semantic_score

\* a search with a profile lists a job that the same search without a
\* profile lists with another overall score
C28_Witness ==
    /\ CleanSearch
    /\ call.profile = BaseProfile
    /\ \E i \in 1..Len(call.val) :
          \E j \in 1..Len(SearchAs(NoProfile)) :
              /\ call.val[i].job_id = SearchAs(NoProfile)[j].job_id
              /\ call.val[i].overall_score # SearchAs(NoProfile)[j].overall_score
              /\ call.val[i].semantic_score > 0

(***************************************************************************)
(* Properties of the job-detail page (SpecApp).                            *)
(***************************************************************************)
\* the tier of an overall score
TierOf(score) ==
    IF Ge(score, 700) THEN "strong" ELSE IF Ge(score, Half) THEN "good" ELSE "stretch"

\* C29: in the job-detail flow with a profile in the session and no LLM
\* configured, the match explanation shown for a job is the one for the tier
\* of the job's computed overall_score: strong iff overall_score >= 0.7, good
\* iff 0.5 <= overall_score < 0.7, stretch otherwise.
C29_DetailExplanationByTier ==
    (call.op = "job_detail" /\ ~client /\ call.explanation # PyNone) =>
        Head(call.explanation.text) = TierOf(call.overall)

\* C30: a job whose location is empty or missing is never given location
\* score 1.0 by the location-name rule: for a profile with preferred
\* locations that do not include 'remote', such a job scores 0.7 if hybrid
\* and 0.2 otherwise.
C30_NoLocationNoNameMatch ==
    (/\ LocationsCompared
     /\ Len(PreferredLocations) > 0
     /\ \A i \in 1..Len(PreferredLocations) :
           LowerStr(PreferredLocations[i]) # <<"remote">>
     /\ LocationOfJob = <<>>)
        => call.val = IF RemoteOfJob = "hybrid" THEN 700 ELSE 200

====
